---- MODULE Spec2Model ----
(***************************************************************************)
(* Verification model of the affinity scoring engine of synapse-bot        *)
(* (AffinityService) and of the store it reads (DatabaseService).          *)
(*                                                                         *)
(* Time.  A Date is modelled by its getTime() value counted in whole       *)
(* seconds (TLC integers are 32 bit, 90 days of milliseconds do not fit).  *)
(* The divisors of the code, 1000 * 60 ms and 1000 * 60 * 60 * 24 ms,      *)
(* become MinuteLen and DayLen seconds.                                    *)
(*                                                                         *)
(* Numbers.  A JavaScript number that is not an integer (minutes, scores,  *)
(* percentages) is modelled by an exact fraction [n, d] in lowest terms;   *)
(* floating point rounding is not modelled.                                *)
(***************************************************************************)
EXTENDS Integers, Sequences, FiniteSets, Bags

VARIABLES
    voiceSessions,     \* collection voiceSessions of the store (one guild)
    userInteractions,  \* collection userInteractions of the store (a bag)
    result,            \* <<>> or <<r>>, r the AffinityScore of the last call
    analysis,          \* <<>> or <<a>>, a the AffinityAnalysis of the last call
    top,               \* <<>> or <<t>>, t the last getTopRelationships call:
                       \* its arguments and the list it returned
    faulty,            \* the queries that the store rejects at present
    thrown,            \* "none" or the query whose error the last call threw
    overlaps,      \* argument of mergeOverlappingTimeRanges (raw overlap list)
    merged,        \* its return value
    remerged,      \* return value of a second application to `merged`
    mpc,           \* position of the merge harness: "input", "merged", "remerged"
    ages,          \* <<>> or the two ages handed to calculateTimeDecay
    weights,       \* <<>> or the two weights it returned
    totals,        \* <<>> or two pairs of directional totalScores
    types,         \* <<>> or what analyzeRelationship derives from each pair
    insightArgs,   \* <<>> or the arguments handed to generateInsights
    insights,      \* what the calls of generateInsights returned, in order
    activeVoiceSessions,  \* RealtimeTrackingService: userId -> session (a Map)
    pending,       \* the tracker's handlers that wait at an await
    voiceStates,   \* channel of each user in the guild, "none" outside voice
    wallClock,         \* what new Date() returns at present, in seconds
    running,       \* whether the bot process is up
    messages,      \* the messages collection, one document per discordId
    guildSync      \* <<>> or <<g>>, g the guildSyncs document of the guild

vars == <<voiceSessions, userInteractions, result, analysis, top, faulty,
          thrown, overlaps, merged, remerged, mpc, ages, weights, totals,
          types, insightArgs, insights, activeVoiceSessions, pending,
          voiceStates, wallClock, running, messages, guildSync>>

storeVars == <<voiceSessions, userInteractions, result>>
serviceVars == <<analysis, top, faulty, thrown>>
mergeVars == <<overlaps, merged, remerged, mpc>>
pureVars == <<ages, weights, totals, types, insightArgs, insights>>
trackerVars == <<activeVoiceSessions, pending, voiceStates, wallClock, running>>
syncVars == <<messages, guildSync>>

----------------------------------------------------------------------------
(* Bounds *)

\* session timestamps are 0, HalfMinute, ..., MaxT * HalfMinute
MaxT == 3
\* longest raw overlap list handed to the merge step
MaxRaw == 3
\* stored joinedAt / leftAt are 0, HalfMinute, ..., MaxJoin * HalfMinute
MaxJoin == 2
\* most voice sessions CreateVoiceSession puts into the store
MaxSessions == 2
\* most interactions RecordInteraction puts into the store
MaxInteractions == 3
\* the long histories span MaxUnits periods of 20 minutes
MaxUnits == 5
\* the oldest timestamp handed to calculateTimeDecay, in days
MaxAgeDays == 170
\* the reverse totalScore handed to the classifier is 0, 1/2, ..., MaxHalves/2
MaxHalves == 2
\* getTopRelationships is called with limit 1, ..., MaxLimit
MaxLimit == 2
\* most operations of the store that are rejected at a time
MaxFaults == 1
\* events that the tracker receives
MaxEvents == 3

----------------------------------------------------------------------------
(* Units *)

MsPerSecond == 1000
MinuteLen == (1000 * 60) \div MsPerSecond
DayLen == (1000 * 60 * 60 * 24) \div MsPerSecond
HalfMinute == MinuteLen \div 2

Times == {k * HalfMinute : k \in 0..MaxT}

ChannelNames == {"General", "Music"}

----------------------------------------------------------------------------
(* Exact fractions standing for JavaScript numbers *)

Abs(x) == IF x < 0 THEN -x ELSE x
Max(a, b) == IF a >= b THEN a ELSE b
Min(a, b) == IF a <= b THEN a ELSE b

RECURSIVE Gcd(_, _)
Gcd(a, b) == IF b = 0 THEN a ELSE Gcd(b, a % b)

\* the number n / d (d # 0) in lowest terms with a positive denominator
R(n, d) ==
    LET g == Gcd(Abs(n), Abs(d))
        s == IF d < 0 THEN -1 ELSE 1
    IN  [n |-> (s * n) \div g, d |-> (s * d) \div g]

Num(k) == [n |-> k, d |-> 1]
RAdd(a, b) == R(a.n * b.d + b.n * a.d, a.d * b.d)
RMul(a, b) == R(a.n * b.n, a.d * b.d)
RDiv(a, b) == R(a.n * b.d, a.d * b.n)
RLe(a, b) == a.n * b.d <= b.n * a.d
RLt(a, b) == a.n * b.d < b.n * a.d

----------------------------------------------------------------------------
(* Interval Overlap Engine: the merge step *)

\* (end - start) / (1000 * 60), lines 660 and 698
DurationMinutes(startTime, endTime) == R(endTime - startTime, MinuteLen)

Range(s) == {s[i] : i \in DOMAIN s}

RECURSIVE SeqSum(_)
SeqSum(s) == IF s = <<>> THEN Num(0) ELSE RAdd(s[1], SeqSum(Tail(s)))

\* keys of the Map channelGroups in insertion order (lines 636-642)
RECURSIVE ChannelKeys(_, _)
ChannelKeys(ovs, seen) ==
    IF ovs = <<>> THEN <<>>
    ELSE IF ovs[1].channelName \in seen THEN ChannelKeys(Tail(ovs), seen)
    ELSE <<ovs[1].channelName>> \o
         ChannelKeys(Tail(ovs), seen \cup {ovs[1].channelName})

\* channelGroups.get(channelName): the overlaps of that name, in input order
ChannelGroup(ovs, channelName) ==
    SelectSeq(ovs, LAMBDA o : o.channelName = channelName)

\* Array.prototype.sort with (a, b) => a.startTime - b.startTime: stable
RECURSIVE InsertByStart(_, _)
InsertByStart(sorted, o) ==
    IF sorted = <<>> THEN <<o>>
    ELSE IF o.startTime < sorted[1].startTime THEN <<o>> \o sorted
    ELSE <<sorted[1]>> \o InsertByStart(Tail(sorted), o)

RECURSIVE SortByStart(_)
SortByStart(s) ==
    IF s = <<>> THEN <<>>
    ELSE InsertByStart(SortByStart(SubSeq(s, 1, Len(s) - 1)), s[Len(s)])

\* a plausible slip: compare with the previous array element, not with the
\* running merged interval
NextStartsAfterPrevious(channelOverlaps, i, current) ==
    channelOverlaps[i].startTime <= channelOverlaps[i - 1].endTime

\* a plausible slip: strict comparison, touching intervals stay apart
NextStartsStrictlyInside(channelOverlaps, i, current) ==
    channelOverlaps[i].startTime < current.endTime

\* line 655: next.startTime <= current.endTime
NextStartsInCurrent(channelOverlaps, i, current) ==
    channelOverlaps[i].startTime <= current.endTime

\* a plausible slip: add the two durations (counts the shared part twice)
MergedDurationSummed(current, next) ==
    RAdd(current.durationMinutes, next.durationMinutes)

\* line 660
MergedDuration(current, next) ==
    DurationMinutes(current.startTime, Max(current.endTime, next.endTime))

\* lines 656-661
MergeInto(channelName, current, next) ==
    [channelName |-> channelName,
     startTime |-> current.startTime,
     endTime |-> Max(current.endTime, next.endTime),
     durationMinutes |-> MergedDuration(current, next)]

\* the loop of lines 650-668 from index i on, `acc` being what the loop has
\* pushed to `merged` for this channel so far
RECURSIVE Sweep(_, _, _, _, _)
Sweep(channelName, channelOverlaps, i, current, acc) ==
    IF i > Len(channelOverlaps) THEN Append(acc, current)
    ELSE IF NextStartsInCurrent(channelOverlaps, i, current)
         THEN Sweep(channelName, channelOverlaps, i + 1,
                    MergeInto(channelName, current, channelOverlaps[i]), acc)
         ELSE Sweep(channelName, channelOverlaps, i + 1,
                    channelOverlaps[i], Append(acc, current))

MergeChannel(ovs, channelName) ==
    LET channelOverlaps == SortByStart(ChannelGroup(ovs, channelName))
    IN  Sweep(channelName, channelOverlaps, 2, channelOverlaps[1], <<>>)

RECURSIVE MergeGroups(_, _)
MergeGroups(ovs, keys) ==
    IF keys = <<>> THEN <<>>
    ELSE MergeChannel(ovs, keys[1]) \o MergeGroups(ovs, Tail(keys))

mergeOverlappingTimeRanges(ovs) ==
    IF Len(ovs) = 0 THEN ovs
    ELSE MergeGroups(ovs, ChannelKeys(ovs, {}))

\* lines 531-541 of calculateVCTimeWithUser: totalMinutes
TotalMinutes(overlappingSessions) ==
    SeqSum([i \in DOMAIN overlappingSessions |->
                overlappingSessions[i].durationMinutes])

----------------------------------------------------------------------------
(* The store: records, and the queries of AffinityService on it.  Every    *)
(* record is of one guild, so the guildId of the filters is left out.      *)

\* leftAt absent (session still open); a null Date
NoDate == 0 - 1

Users == {"u1", "u2", "u3"}
VoiceUsers == {"u1", "u2"}
ChannelIds == {"c1", "c2", "c3"}
\* channel.name: two voice channels of the guild carry the same name
ChannelNameOf ==
    [c \in ChannelIds |-> IF c = "c3" THEN "Music" ELSE "General"]

JoinTimes == {k * HalfMinute : k \in 0..MaxJoin}

\* VoiceSession documents with leftAt > joinedAt or no leftAt
SessionDocs ==
    {s \in [userId : VoiceUsers, channelId : ChannelIds,
            channelName : ChannelNames, joinedAt : JoinTimes,
            leftAt : JoinTimes \cup {NoDate}] :
        /\ s.channelName = ChannelNameOf[s.channelId]
        /\ s.leftAt = NoDate \/ s.leftAt > s.joinedAt}

\* what the clock can show while one call runs: the call starts
\* HalfMinute after the last stored timestamp and may cross a second
EvalTime == (MaxJoin + 1) * HalfMinute
EvalTimes == {EvalTime, EvalTime + 1}

\* the clock readings of one calculateAffinity call that a result can
\* depend on, in program order: new Date() of lines 591 and 592, $$NOW of
\* line 729.  new Date() of line 268 reads as end1 and Date.now() of line
\* 370 as totalNow: no stored timestamp is within a second of a boundary
\* they decide.
Readings ==
    {rd \in [end1 : EvalTimes, end2 : EvalTimes, totalNow : EvalTimes] :
        rd.end1 <= rd.end2 /\ rd.end2 <= rd.totalNow}

\* the readings that can differ in their effect: with no open session in
\* the store every reading gives the same results, one stands for all
ClockReadings(sessions) ==
    IF \E s \in sessions : s.leftAt = NoDate THEN Readings
    ELSE {[end1 |-> EvalTime, end2 |-> EvalTime, totalNow |-> EvalTime]}

\* fraction sum of f[x] over the finite set S
RECURSIVE RSum(_, _)
RSum(S, f) ==
    IF S = {} THEN Num(0)
    ELSE LET x == CHOOSE y \in S : TRUE IN RAdd(f[x], RSum(S \ {x}, f))

\* .sort({ joinedAt: -1 }) of a set of session documents
RECURSIVE SortByJoinedDesc(_)
SortByJoinedDesc(S) ==
    IF S = {} THEN <<>>
    ELSE LET s == CHOOSE x \in S : \A y \in S : x.joinedAt >= y.joinedAt
         IN  <<s>> \o SortByJoinedDesc(S \ {s})

\* voiceSessions.find({ userId, guildId }).sort({ joinedAt: -1 }).limit(500)
FindVoiceSessions(sessions, userId) ==
    LET found == SortByJoinedDesc({s \in sessions : s.userId = userId})
    IN  SubSeq(found, 1, Min(Len(found), 500))

calculateTimeOverlap(start1, end1, start2, end2) ==
    LET overlapStart == Max(start1, start2)
        overlapEnd == Min(end1, end2)
    IN  [startTime |-> overlapStart,
         endTime |-> overlapEnd,
         durationMinutes |->
            IF overlapStart >= overlapEnd THEN Num(0)
            ELSE DurationMinutes(overlapStart, overlapEnd)]

\* a plausible slip: compare the channel names
SameChannelName(session1, session2) ==
    session1.channelName = session2.channelName

\* line 588
SameChannel(session1, session2) == session1.channelId = session2.channelId

\* session.leftAt || new Date()
SessionEnd(session, clock) ==
    IF session.leftAt # NoDate THEN session.leftAt ELSE clock

\* a plausible slip: the union of the two sessions instead of their overlap
PairSpan(session1, session2, rd) ==
    [startTime |-> Min(session1.joinedAt, session2.joinedAt),
     endTime |-> Max(SessionEnd(session1, rd.end1),
                     SessionEnd(session2, rd.end2)),
     durationMinutes |->
        DurationMinutes(Min(session1.joinedAt, session2.joinedAt),
                        Max(SessionEnd(session1, rd.end1),
                            SessionEnd(session2, rd.end2)))]

\* lines 590-600
PairOverlap(session1, session2, rd) ==
    calculateTimeOverlap(session1.joinedAt, SessionEnd(session1, rd.end1),
                         session2.joinedAt, SessionEnd(session2, rd.end2))

\* body of the inner loop, lines 584-609: what one pair pushes to `overlaps`
PairPush(session1, session2, rd) ==
    IF session1.userId = session2.userId THEN <<>>
    ELSE IF ~SameChannel(session1, session2) THEN <<>>
    ELSE LET overlap == PairOverlap(session1, session2, rd)
         IN  IF RLt(Num(0), overlap.durationMinutes)
             THEN <<[channelName |-> session1.channelName,
                     startTime |-> overlap.startTime,
                     endTime |-> overlap.endTime,
                     durationMinutes |-> overlap.durationMinutes]>>
             ELSE <<>>

\* the two loops of lines 582-611 from the k-th pair on
RECURSIVE PairLoop(_, _, _, _)
PairLoop(user1Sessions, user2Sessions, k, rd) ==
    IF k > Len(user1Sessions) * Len(user2Sessions) THEN <<>>
    ELSE PairPush(user1Sessions[((k - 1) \div Len(user2Sessions)) + 1],
                  user2Sessions[((k - 1) % Len(user2Sessions)) + 1], rd)
         \o PairLoop(user1Sessions, user2Sessions, k + 1, rd)

findOverlappingSessions(user1Sessions, user2Sessions, rd) ==
    mergeOverlappingTimeRanges(PairLoop(user1Sessions, user2Sessions, 1, rd))

\* a plausible slip: sessions without leftAt left out of the sum
getTotalClosedVCTime(sessions, userId, dbNow) ==
    LET mine == {s \in sessions : s.userId = userId /\ s.leftAt # NoDate}
    IN  RSum(mine, [s \in mine |-> R(s.leftAt - s.joinedAt, MinuteLen)])

getTotalVCTimeForUser(sessions, userId, dbNow) ==
    LET mine == {s \in sessions : s.userId = userId}
    IN  RSum(mine, [s \in mine |->
                R(SessionEnd(s, dbNow) - s.joinedAt, MinuteLen)])

\* the return value; topChannels is left out, and the local arrays
\* `overlaps` (before the merge) and overlappingSessions are kept with it
calculateVCTimeWithUser(sessions, fromUserId, targetUserId, fromUserSessions, rd) ==
    LET targetUserSessions == FindVoiceSessions(sessions, targetUserId)
        overlappingSessions ==
            findOverlappingSessions(fromUserSessions, targetUserSessions, rd)
        totalMinutes == TotalMinutes(overlappingSessions)
        totalVCTime == getTotalVCTimeForUser(sessions, fromUserId, rd.totalNow)
    IN  [totalMinutes |-> totalMinutes,
         sessionCount |-> Len(overlappingSessions),
         averageSessionLength |->
            IF Len(overlappingSessions) > 0
            THEN RDiv(totalMinutes, Num(Len(overlappingSessions)))
            ELSE Num(0),
         relativeScore |->
            IF RLt(Num(0), totalVCTime)
            THEN RMul(RDiv(totalMinutes, totalVCTime), Num(100))
            ELSE Num(0),
         overlaps |-> PairLoop(fromUserSessions, targetUserSessions, 1, rd),
         overlappingSessions |-> overlappingSessions]

----------------------------------------------------------------------------
(* Affinity Calculator and Relative Ranking Module *)

InteractionTypes == {"reaction", "mention", "reply", "vc_time"}

\* ages in days, at time 0, of the timestamps the store holds
InteractionAges == {0, 120}

\* the user whose relationships are scored
Callers == {"u1"}

\* UserInteraction documents written for the callers: a vc_time event names
\* its own user (RealtimeTrackingService lines 207-210), the others another
InteractionDocs ==
    {i \in [fromUserId : Callers, toUserId : Users,
            interactionType : InteractionTypes,
            timestamp : {0 - a * DayLen : a \in InteractionAges}] :
        /\ i.interactionType = "vc_time" => i.toUserId = i.fromUserId
        /\ i.toUserId = i.fromUserId => i.interactionType = "vc_time"}

SCORING_WEIGHTS ==
    [reactions |-> Num(1), mentions |-> Num(2), replies |-> Num(3),
     vcRelativeScore |-> Num(50)]

TIME_DECAY_DAYS == 90

\* userInteractions.find({ fromUserId, toUserId, guildId }): the sub-bag;
\* .limit(1000) cannot bind, the store holds at most MaxInteractions
FindInteractions(interactions, fromUserId, toUserId) ==
    LET docs == {i \in BagToSet(interactions) :
                    i.fromUserId = fromUserId /\ i.toUserId = toUserId}
    IN  [i \in docs |-> CopiesIn(i, interactions)]

\* 1000 * Math.exp(-k / 30) for a whole number k of days, rounded down
\* step by step (0.967 stands for Math.exp(-1 / 30))
RECURSIVE ExpMilli(_)
ExpMilli(k) == IF k <= 0 THEN 1000 ELSE (ExpMilli(k - 1) * 967) \div 1000

\* a plausible slip: Math.max(0.1, ...) forgotten
calculateTimeDecayNoFloor(timestamp, now) ==
    LET daysDiff == R(now - timestamp, DayLen)
    IN  IF RLe(daysDiff, Num(TIME_DECAY_DAYS)) THEN Num(1)
        ELSE R(ExpMilli((daysDiff.n \div daysDiff.d) - TIME_DECAY_DAYS), 1000)

\* a plausible slip: the minus sign of the exponent dropped
calculateTimeDecayGrowing(timestamp, now) ==
    LET daysDiff == R(now - timestamp, DayLen)
        decayFactor ==
            R(1000, ExpMilli((daysDiff.n \div daysDiff.d) - TIME_DECAY_DAYS))
    IN  IF RLe(daysDiff, Num(TIME_DECAY_DAYS)) THEN Num(1)
        ELSE IF RLe(decayFactor, R(1, 10)) THEN R(1, 10) ELSE decayFactor

\* lines 319-329; the exponential is taken at the whole days of daysDiff
calculateTimeDecay(timestamp, now) ==
    LET daysDiff == R(now - timestamp, DayLen)
        decayFactor ==
            R(ExpMilli((daysDiff.n \div daysDiff.d) - TIME_DECAY_DAYS), 1000)
    IN  IF RLe(daysDiff, Num(TIME_DECAY_DAYS)) THEN Num(1)
        ELSE IF RLe(decayFactor, R(1, 10)) THEN R(1, 10) ELSE decayFactor

\* a plausible slip: the decay factor added without the weight of the kind
KindScoreUnweighted(interactions, kind, weight, now) ==
    LET docs == {i \in BagToSet(interactions) : i.interactionType = kind}
    IN  RSum(docs, [i \in docs |->
                RMul(Num(CopiesIn(i, interactions)),
                     calculateTimeDecay(i.timestamp, now))])

\* the bucket of one interactionType after the loop of lines 271-288
KindScore(interactions, kind, weight, now) ==
    LET docs == {i \in BagToSet(interactions) : i.interactionType = kind}
    IN  RSum(docs, [i \in docs |->
                RMul(Num(CopiesIn(i, interactions)),
                     RMul(weight, calculateTimeDecay(i.timestamp, now)))])

KindCount(interactions, kind) ==
    LET docs == {i \in BagToSet(interactions) : i.interactionType = kind}
    IN  RSum(docs, [i \in docs |-> Num(CopiesIn(i, interactions))]).n

\* the weighting of part_000 (vcTime: 2.0 per minute)
VcScoreAbsolute(vcTimeData) == RMul(vcTimeData.totalMinutes, Num(2))

\* a plausible slip: the percentage taken as a fraction of the weight
VcScoreFraction(vcTimeData) ==
    RDiv(RMul(vcTimeData.relativeScore, SCORING_WEIGHTS.vcRelativeScore),
         Num(100))

\* lines 295-296
VcScore(vcTimeData) ==
    RMul(vcTimeData.relativeScore, SCORING_WEIGHTS.vcRelativeScore)

\* a plausible slip: the voice term left out of the total
TextTotal(reactions, mentions, replies, vcRelativeScore) ==
    RAdd(RAdd(reactions, mentions), replies)

\* line 299
TotalScore(reactions, mentions, replies, vcRelativeScore) ==
    RAdd(RAdd(RAdd(reactions, mentions), replies), vcRelativeScore)

\* lines 271-316: the loop over the interactions and the record returned,
\* given the answer of calculateVCTimeWithUser
InteractionScores(interactions, vcTimeData, now) ==
    LET reactions == KindScore(interactions, "reaction",
                               SCORING_WEIGHTS.reactions, now)
        mentions == KindScore(interactions, "mention",
                              SCORING_WEIGHTS.mentions, now)
        replies == KindScore(interactions, "reply",
                             SCORING_WEIGHTS.replies, now)
        vcRelativeScore == VcScore(vcTimeData)
    IN  [total |-> TotalScore(reactions, mentions, replies, vcRelativeScore),
         breakdown |-> [reactions |-> reactions, mentions |-> mentions,
                        replies |-> replies,
                        vcRelativeScore |-> vcRelativeScore],
         counts |-> [reactions |-> KindCount(interactions, "reaction"),
                     mentions |-> KindCount(interactions, "mention"),
                     replies |-> KindCount(interactions, "reply"),
                     vcSessions |-> vcTimeData.sessionCount],
         vcDetails |-> vcTimeData]

calculateInteractionScores(sessions, interactions, fromSessions, targetUserId, fromUserId, rd) ==
    InteractionScores(interactions,
                      calculateVCTimeWithUser(sessions, fromUserId,
                                              targetUserId, fromSessions, rd),
                      rd.end1)

\* Math.round of a fraction that is not negative
Round(x) == (2 * x.n + x.d) \div (2 * x.d)

calculateTimeRange(interactions) ==
    IF interactions = EmptyBag
    THEN [firstInteraction |-> NoDate, lastInteraction |-> NoDate,
          daysActive |-> 0]
    ELSE LET timestamps == {i.timestamp : i \in BagToSet(interactions)}
             firstInteraction ==
                 CHOOSE t \in timestamps : \A u \in timestamps : t <= u
             lastInteraction ==
                 CHOOSE t \in timestamps : \A u \in timestamps : t >= u
         IN  [firstInteraction |-> firstInteraction,
              lastInteraction |-> lastInteraction,
              daysActive |->
                 Round(R(lastInteraction - firstInteraction, DayLen))]

\* the aggregate of lines 364-383: per-target counts of the interactions of
\* userId in the last 90 days, as a function on the targets
InteractionStats(interactions, userId, dateNow) ==
    LET docs == {i \in BagToSet(interactions) :
                    /\ i.fromUserId = userId
                    /\ i.timestamp >= dateNow - 90 * DayLen}
    IN  [t \in {i.toUserId : i \in docs} |->
            RSum({i \in docs : i.toUserId = t},
                 [i \in docs |-> Num(CopiesIn(i, interactions))]).n]

\* line 390: the counts, sorted descending
RECURSIVE SortedCounts(_, _)
SortedCounts(stats, targets) ==
    IF targets = {} THEN <<>>
    ELSE LET t == CHOOSE x \in targets : \A y \in targets : stats[x] >= stats[y]
         IN  <<stats[t]>> \o SortedCounts(stats, targets \ {t})

\* scores.findIndex(score => score <= currentScore)
FindIndex(scores, currentScore) ==
    LET hits == {k \in DOMAIN scores : RLe(Num(scores[k]), currentScore)}
    IN  IF hits = {} THEN 0 - 1
        ELSE (CHOOSE k \in hits : \A m \in hits : k <= m) - 1

\* a plausible slip: the rank, not the index, over the number of targets
PercentileOfRank(index, length) == R(index + 1, length)

\* line 395
Percentile(index, length) == R(index, length)

calculateRelativeMetrics(interactions, userId, currentScore, dateNow) ==
    LET interactionStats == InteractionStats(interactions, userId, dateNow)
        scores == SortedCounts(interactionStats, DOMAIN interactionStats)
        index == FindIndex(scores, currentScore)
        percentile == Percentile(index, Len(scores))
    IN  IF Len(scores) = 0 THEN [relativeScore |-> Num(0), rank |-> 1]
        ELSE [relativeScore |->
                 IF RLe(RMul(percentile, Num(100)), Num(100))
                 THEN RMul(percentile, Num(100)) ELSE Num(100),
              rank |-> index + 1]

\* a plausible slip: > where the code has >=
determineRelationshipTypeStrict(mutualScore, score1to2, score2to1) ==
    IF RLt(Num(100), mutualScore) THEN "strong"
    ELSE IF RLt(Num(50), mutualScore) THEN "moderate"
    ELSE IF RLt(Num(10), mutualScore) THEN "weak"
    ELSE "none"

\* lines 404-415
determineRelationshipType(mutualScore, score1to2, score2to1) ==
    IF RLe(Num(100), mutualScore) THEN "strong"
    ELSE IF RLe(Num(50), mutualScore) THEN "moderate"
    ELSE IF RLe(Num(10), mutualScore) THEN "weak"
    ELSE "none"

\* a plausible slip: only the forward score
MutualScoreOneWay(affinity, reverseAffinity) == affinity.totalScore

\* line 136
MutualScore(affinity, reverseAffinity) ==
    RAdd(affinity.totalScore, reverseAffinity.totalScore)

\* lines 136-137: what analyzeRelationship derives from the two scores
Relationship(affinity, reverseAffinity) ==
    LET mutualScore == MutualScore(affinity, reverseAffinity)
    IN  [mutualScore |-> mutualScore,
         relationshipType |->
             determineRelationshipType(mutualScore, affinity.totalScore,
                                       reverseAffinity.totalScore)]

\* lines 104-117: the ranking of the score and the AffinityScore returned
AffinityScore(allInteractions, fromUserId, toUserId, scores, timeRange, dateNow) ==
    LET relative == calculateRelativeMetrics(allInteractions, fromUserId,
                                             scores.total, dateNow)
    IN  [fromUserId |-> fromUserId,
         toUserId |-> toUserId,
         totalScore |-> scores.total,
         breakdown |-> scores.breakdown,
         interactionCounts |-> scores.counts,
         timeRange |-> timeRange,
         relativeScore |-> relative.relativeScore,
         rank |-> relative.rank,
         vcDetails |-> scores.vcDetails]

calculateAffinity(sessions, allInteractions, fromUserId, toUserId, rd) ==
    LET interactions == FindInteractions(allInteractions, fromUserId, toUserId)
        fromSessions == FindVoiceSessions(sessions, fromUserId)
    IN  AffinityScore(allInteractions, fromUserId, toUserId,
                      calculateInteractionScores(sessions, interactions,
                          fromSessions, toUserId, fromUserId, rd),
                      calculateTimeRange(interactions), rd.totalNow)

\* the second aggregate of getTopRelationships (lines 171-213): per other
\* user the number of pairs (session of userId, session of the other user in
\* the same channelId)
VcPartnerStats(sessions, userId) ==
    LET pairs == {p \in {s \in sessions : s.userId = userId} \X sessions :
                     /\ p[2].userId # userId
                     /\ p[2].channelId = p[1].channelId}
    IN  [t \in {p[2].userId : p \in pairs} |->
            Cardinality({p \in pairs : p[2].userId = t})]

\* the orders in which allUserIds (lines 216-226) can be iterated: the text
\* partners by count descending, then the VC partners not yet in the set by
\* count descending; $sort leaves the order of equal counts open
CandidateOrders(textStats, vcStats) ==
    LET T == DOMAIN textStats
        all == T \cup DOMAIN vcStats
    IN  {q \in [1..Cardinality(all) -> all] :
            \A i, j \in DOMAIN q :
                i < j =>
                    /\ q[i] # q[j]
                    /\ q[j] \in T => q[i] \in T
                    /\ (q[i] \in T /\ q[j] \in T) =>
                           textStats[q[i]] >= textStats[q[j]]
                    /\ (q[i] \notin T /\ q[j] \notin T) =>
                           vcStats[q[i]] >= vcStats[q[j]]}

IsPositive(affinity) == RLt(Num(0), affinity.totalScore)

\* a plausible slip: the filter of line 232 left out
KeepAll(relationships) == relationships

\* lines 230-236: the scores that are pushed
KeepPositive(relationships) == SelectSeq(relationships, IsPositive)

\* Array.prototype.sort with (a, b) => b.totalScore - a.totalScore: stable
RECURSIVE SortByTotalScore(_)
SortByTotalScore(s) ==
    IF s = <<>> THEN <<>>
    ELSE LET rest == SortByTotalScore(SubSeq(s, 1, Len(s) - 1))
             x == s[Len(s)]
             before == SelectSeq(rest, LAMBDA a : RLe(x.totalScore, a.totalScore))
             after == SelectSeq(rest, LAMBDA a : RLt(a.totalScore, x.totalScore))
         IN  before \o <<x>> \o after

\* line 239: relationships.slice(0, limit)
Slice(sorted, limit) == SubSeq(sorted, 1, Min(Len(sorted), limit))

\* lines 153-249; `order` is the iteration order of allUserIds, rds the clock
\* readings of the calculateAffinity call of each target
getTopRelationships(sessions, interactions, userId, limit, order, rds) ==
    Slice(SortByTotalScore(
              KeepPositive([i \in DOMAIN order |->
                  calculateAffinity(sessions, interactions, userId, order[i],
                                    rds[order[i]])])),
          limit)

\* lines 136-147: the RelationshipAnalysis built from the two scores
RelationshipAnalysis(affinity, reverseAffinity) ==
    [affinity |-> affinity,
     reverseAffinity |-> reverseAffinity,
     mutualScore |-> Relationship(affinity, reverseAffinity).mutualScore,
     relationshipType |->
         Relationship(affinity, reverseAffinity).relationshipType]

\* lines 129-147; user1, user2 and insights are left out
analyzeRelationship(sessions, interactions, user1Id, user2Id, rd1, rd2) ==
    RelationshipAnalysis(
        calculateAffinity(sessions, interactions, user1Id, user2Id, rd1),
        calculateAffinity(sessions, interactions, user2Id, user1Id, rd2))

----------------------------------------------------------------------------
(* Insight Generator.  A line is the template that is pushed, with the      *)
(* names and the number it interpolates: Math.round gives n in minutes,     *)
(* toFixed(1) gives n in tenths of a percent.  A user is <<>> for null.     *)

InsightLine(text, name1, name2, n) ==
    [text |-> text, name1 |-> name1, name2 |-> name2, n |-> n]

\* a plausible slip: the channel line pushed before the other voice lines
VcInsightsChannelFirst(affinity) ==
    IF "vcDetails" \notin DOMAIN affinity THEN <<>>
    ELSE
    LET vcDetails == affinity.vcDetails
    IN  (IF Len(vcDetails.topChannels) > 0
         THEN <<InsightLine("Most time spent in", vcDetails.topChannels[1].channelName,
                            "", Round(vcDetails.topChannels[1].minutes))>>
         ELSE <<>>)
        \o (IF RLt(Num(60), vcDetails.totalMinutes)
            THEN <<InsightLine("Extensive voice chat time together", "", "",
                               Round(vcDetails.totalMinutes))>>
            ELSE <<>>)

\* lines 445-476: the voice lines
VcInsights(affinity) ==
    IF "vcDetails" \in DOMAIN affinity
    THEN LET vcDetails == affinity.vcDetails
             tenths == Round(RMul(vcDetails.relativeScore, Num(10)))
         IN  (IF RLt(Num(60), vcDetails.totalMinutes)
              THEN <<InsightLine("Extensive voice chat time together", "", "",
                                 Round(vcDetails.totalMinutes))>>
              ELSE IF RLt(Num(10), vcDetails.totalMinutes)
              THEN <<InsightLine("Moderate voice chat time together", "", "",
                                 Round(vcDetails.totalMinutes))>>
              ELSE <<>>)
             \o (IF RLt(Num(20), vcDetails.relativeScore)
                 THEN <<InsightLine("Very high VC affinity", "", "", tenths)>>
                 ELSE IF RLt(Num(10), vcDetails.relativeScore)
                 THEN <<InsightLine("High VC affinity", "", "", tenths)>>
                 ELSE IF RLt(Num(2), vcDetails.relativeScore)
                 THEN <<InsightLine("Moderate VC affinity", "", "", tenths)>>
                 ELSE IF RLt(Num(0), vcDetails.relativeScore)
                 THEN <<InsightLine("Low VC affinity", "", "", tenths)>>
                 ELSE <<>>)
             \o (IF Len(vcDetails.topChannels) > 0
                 THEN <<InsightLine("Most time spent in",
                                    vcDetails.topChannels[1].channelName, "",
                                    Round(vcDetails.topChannels[1].minutes))>>
                 ELSE <<>>)
             \o (IF RLt(Num(30), vcDetails.averageSessionLength)
                 THEN <<InsightLine("Long average VC sessions", "", "",
                                    Round(vcDetails.averageSessionLength))>>
                 ELSE <<>>)
    ELSE IF RLt(Num(10), affinity.breakdown.vcRelativeScore)
    THEN <<InsightLine("Significant voice chat time together", "", "", 0)>>
    ELSE <<>>

\* lines 417-497; dateNow is what Date.now() of line 485 returns
generateInsights(affinity, reverseAffinity, user1, user2, dateNow) ==
    LET name1 == IF user1 # <<>> /\ user1[1].displayName # ""
                 THEN user1[1].displayName ELSE "User 1"
        name2 == IF user2 # <<>> /\ user2[1].displayName # ""
                 THEN user2[1].displayName ELSE "User 2"
        counts == affinity.interactionCounts
        totalInteractions == counts.reactions + counts.mentions + counts.replies
        lastInteraction == affinity.timeRange.lastInteraction
    IN  (IF RLt(reverseAffinity.totalScore, affinity.totalScore)
         THEN <<InsightLine("initiates more interactions with", name1, name2, 0)>>
         ELSE IF RLt(affinity.totalScore, reverseAffinity.totalScore)
         THEN <<InsightLine("initiates more interactions with", name2, name1, 0)>>
         ELSE IF RLt(Num(0), affinity.totalScore)
         THEN <<InsightLine("Both users initiate interactions equally", "", "", 0)>>
         ELSE <<>>)
        \o (IF 10 * counts.replies > 4 * totalInteractions
            THEN <<InsightLine("High level of direct conversation (many replies)",
                               "", "", 0)>>
            ELSE <<>>)
        \o (IF 10 * counts.mentions > 3 * totalInteractions
            THEN <<InsightLine("Frequent mentions suggest close relationship",
                               "", "", 0)>>
            ELSE <<>>)
        \o VcInsights(affinity)
        \o (IF affinity.timeRange.daysActive > 30
            THEN <<InsightLine("Long-term relationship (30+ days)", "", "", 0)>>
            ELSE <<>>)
        \o (IF lastInteraction = NoDate THEN <<>>
            ELSE IF dateNow - lastInteraction > 7 * DayLen
            THEN <<InsightLine("No recent interactions (7+ days)", "", "", 0)>>
            ELSE IF dateNow - lastInteraction < DayLen
            THEN <<InsightLine("Very recent interaction", "", "", 0)>>
            ELSE <<>>)
        \o (IF affinity.rank <= 3
            THEN <<InsightLine("Top relationship for", name1, "", affinity.rank)>>
            ELSE <<>>)

----------------------------------------------------------------------------
(* Operations on the store and calls of the engine *)

\* no call of the service has returned or thrown, the store answers; the
\* bot has started, nobody is in a voice channel
InitService ==
    /\ analysis = <<>>
    /\ top = <<>>
    /\ faulty = {}
    /\ thrown = "none"
    /\ activeVoiceSessions = {}
    /\ pending = {}
    /\ voiceStates = [u \in Callers |-> "none"]
    /\ wallClock = 0
    /\ running = TRUE
    /\ messages = {}
    /\ guildSync = <<>>

\* no pure function has been applied
InitPure ==
    /\ ages = <<>>
    /\ weights = <<>>
    /\ totals = <<>>
    /\ types = <<>>
    /\ insightArgs = <<>>
    /\ insights = <<>>

\* the operations of the store that a call can find rejected:
\* getCollections throws while the store is not initialized, a query
\* rejects its promise
Operations ==
    {"getCollections", "users.findOne", "userInteractions.find",
     "userInteractions.aggregate", "voiceSessions.find",
     "voiceSessions.aggregate"}

\* what calculateAffinity awaits, in program order (lines 72, 75, 86, 517,
\* 716, 364; the second voiceSessions.find adds nothing)
AffinityQueries ==
    <<"getCollections", "userInteractions.find", "voiceSessions.find",
      "voiceSessions.aggregate", "userInteractions.aggregate">>

\* a plausible slip: a catch around the queries that logs and goes on
FirstFaultCaught(queries) == "none"

\* no try/catch in AffinityService: the first rejected await ends the call
FirstFault(queries) ==
    LET bad == {i \in DOMAIN queries : queries[i] \in faulty}
    IN  IF bad = {} THEN "none"
        ELSE queries[CHOOSE i \in bad : \A j \in bad : i <= j]

\* no call has returned or thrown to a caller that still holds the outcome
Idle ==
    /\ result = <<>>
    /\ analysis = <<>>
    /\ top = <<>>
    /\ thrown = "none"

\* DatabaseService.createVoiceSession; a second document equal to a stored
\* one is not modelled (the collection is a set)
CreateVoiceSession ==
    /\ Idle
    /\ Cardinality(voiceSessions) < MaxSessions
    /\ \E s \in SessionDocs \ voiceSessions :
           voiceSessions' = voiceSessions \cup {s}
    /\ UNCHANGED <<userInteractions, result>>
    /\ UNCHANGED serviceVars
    /\ UNCHANGED mergeVars
    /\ UNCHANGED trackerVars
    /\ UNCHANGED syncVars
    /\ UNCHANGED pureVars

\* DatabaseService.recordInteraction as the tracker calls it: a vc_time
\* event is written with the session of the join it records
RecordInteraction ==
    /\ Idle
    /\ BagCardinality(userInteractions) < MaxInteractions
    /\ \E i \in InteractionDocs :
           /\ i.interactionType = "vc_time" =>
                  \E s \in voiceSessions :
                      s.userId = i.fromUserId /\ s.joinedAt = i.timestamp
           /\ userInteractions' = userInteractions (+) SetToBag({i})
    /\ UNCHANGED <<voiceSessions, result>>
    /\ UNCHANGED serviceVars
    /\ UNCHANGED mergeVars
    /\ UNCHANGED trackerVars
    /\ UNCHANGED syncVars
    /\ UNCHANGED pureVars

\* a plausible slip: the call logs itself as an interaction of the pair
CalculateAffinityRecording ==
    /\ Idle
    /\ \E fromUserId \in Callers, toUserId \in Users \ Callers,
          rd \in ClockReadings(voiceSessions) :
           /\ thrown' = FirstFault(AffinityQueries)
           /\ result' =
                  IF thrown' = "none"
                  THEN <<calculateAffinity(voiceSessions, userInteractions,
                                           fromUserId, toUserId, rd)>>
                  ELSE <<>>
           /\ userInteractions' =
                  userInteractions (+)
                  SetToBag({[fromUserId |-> fromUserId, toUserId |-> toUserId,
                             interactionType |-> "mention", timestamp |-> 0]})
    /\ UNCHANGED <<voiceSessions, analysis, top, faulty>>
    /\ UNCHANGED mergeVars
    /\ UNCHANGED trackerVars
    /\ UNCHANGED syncVars
    /\ UNCHANGED pureVars

\* AffinityService.calculateAffinity on a snapshot of the store
CalculateAffinity ==
    /\ Idle
    /\ \E fromUserId \in Callers, toUserId \in Users,
          rd \in ClockReadings(voiceSessions) :
           /\ thrown' = FirstFault(AffinityQueries)
           /\ result' =
                  IF thrown' = "none"
                  THEN <<calculateAffinity(voiceSessions, userInteractions,
                                           fromUserId, toUserId, rd)>>
                  ELSE <<>>
    /\ UNCHANGED <<voiceSessions, userInteractions, analysis, top, faulty>>
    /\ UNCHANGED mergeVars
    /\ UNCHANGED trackerVars
    /\ UNCHANGED syncVars
    /\ UNCHANGED pureVars

\* what getUser awaits (DatabaseService lines 99-100)
UserQueries == <<"getCollections", "users.findOne">>

\* the errors Promise.all of line 129 can reject with: the rejection of
\* getUser or that of calculateAffinity, whichever comes first
AnalyzeFaults ==
    {FirstFault(UserQueries), FirstFault(AffinityQueries)} \ {"none"}

\* AffinityService.analyzeRelationship on a snapshot of the store
AnalyzeRelationship ==
    /\ Idle
    /\ \E user1Id \in Callers, user2Id \in Users \ Callers,
          rd1 \in ClockReadings(voiceSessions),
          rd2 \in ClockReadings(voiceSessions) :
           /\ IF AnalyzeFaults = {} THEN thrown' = "none"
              ELSE thrown' \in AnalyzeFaults
           /\ analysis' =
                  IF thrown' = "none"
                  THEN <<analyzeRelationship(voiceSessions, userInteractions,
                                             user1Id, user2Id, rd1, rd2)>>
                  ELSE <<>>
    /\ UNCHANGED <<voiceSessions, userInteractions, result, top, faulty>>
    /\ UNCHANGED mergeVars
    /\ UNCHANGED trackerVars
    /\ UNCHANGED syncVars
    /\ UNCHANGED pureVars

\* what getTopRelationships awaits before the loop (lines 158, 161, 176)
TopQueries ==
    <<"getCollections", "userInteractions.aggregate", "voiceSessions.aggregate">>

\* AffinityService.getTopRelationships on a snapshot of the store; Date.now()
\* of line 167 reads as EvalTime (no stored timestamp is within a second of
\* the window it decides)
GetTopRelationships ==
    /\ Idle
    /\ \E userId \in Callers, limit \in 1..MaxLimit,
          rds \in [Users -> ClockReadings(voiceSessions)] :
        \E order \in CandidateOrders(
                        InteractionStats(userInteractions, userId, EvalTime),
                        VcPartnerStats(voiceSessions, userId)) :
           /\ thrown' =
                  FirstFault(TopQueries \o
                             (IF order = <<>> THEN <<>> ELSE AffinityQueries))
           /\ top' =
                  IF thrown' = "none"
                  THEN <<[userId |-> userId, limit |-> limit,
                          relationships |->
                              getTopRelationships(voiceSessions,
                                  userInteractions, userId, limit, order,
                                  rds)]>>
                  ELSE <<>>
    /\ UNCHANGED <<voiceSessions, userInteractions, result, analysis, faulty>>
    /\ UNCHANGED mergeVars
    /\ UNCHANGED trackerVars
    /\ UNCHANGED syncVars
    /\ UNCHANGED pureVars

\* the caller drops the outcome of the call: the value or the error
Return ==
    /\ ~Idle
    /\ result' = <<>>
    /\ analysis' = <<>>
    /\ top' = <<>>
    /\ thrown' = "none"
    /\ UNCHANGED <<voiceSessions, userInteractions, faulty>>
    /\ UNCHANGED mergeVars
    /\ UNCHANGED trackerVars
    /\ UNCHANGED syncVars
    /\ UNCHANGED pureVars

----------------------------------------------------------------------------
(* RealtimeTrackingService.  A handler runs up to its next await in one     *)
(* step; `pending` holds the handlers that wait, each with the event it     *)
(* handles, the time it read and, inside updateVoiceSession, what findOne   *)
(* returned.  Every event arrives a second after the one before.            *)

\* the document of lines 193-199 and 255-261
NewSession(userId, channelId, joinedAt) ==
    [userId |-> userId, channelId |-> channelId,
     channelName |-> ChannelNameOf[channelId],
     joinedAt |-> joinedAt, leftAt |-> NoDate]

Handler(kind, userId, channelId, time, pc) ==
    [kind |-> kind, userId |-> userId, channelId |-> channelId,
     time |-> time, pc |-> pc, found |-> <<>>]

\* voiceStateUpdate with no old channel (lines 192-201): the session is
\* built and createVoiceSession awaited
VoiceJoin ==
    /\ running /\ Idle /\ wallClock < MaxEvents
    /\ \E userId \in Callers, channelId \in ChannelIds :
           /\ voiceStates[userId] = "none"
           /\ voiceStates' = [voiceStates EXCEPT ![userId] = channelId]
           /\ pending' = pending \cup
                  {Handler("join", userId, channelId, wallClock + 1, "create")}
    /\ wallClock' = wallClock + 1
    /\ UNCHANGED <<activeVoiceSessions, running>>
    /\ UNCHANGED storeVars
    /\ UNCHANGED serviceVars
    /\ UNCHANGED mergeVars
    /\ UNCHANGED pureVars
    /\ UNCHANGED syncVars

\* voiceStateUpdate with no new channel (lines 220-223): without an entry
\* of the user in the Map the handler ends at once
VoiceLeave ==
    /\ running /\ Idle /\ wallClock < MaxEvents
    /\ \E userId \in Callers :
           /\ voiceStates[userId] # "none"
           /\ voiceStates' = [voiceStates EXCEPT ![userId] = "none"]
           /\ pending' =
                  IF \E s \in activeVoiceSessions : s.userId = userId
                  THEN pending \cup
                           {Handler("leave", userId, voiceStates[userId],
                                    wallClock + 1, "find")}
                  ELSE pending
    /\ wallClock' = wallClock + 1
    /\ UNCHANGED <<activeVoiceSessions, running>>
    /\ UNCHANGED storeVars
    /\ UNCHANGED serviceVars
    /\ UNCHANGED mergeVars
    /\ UNCHANGED pureVars
    /\ UNCHANGED syncVars

\* voiceStateUpdate between two channels (lines 244-261): with an entry in
\* the Map updateVoiceSession is awaited first
VoiceSwitch ==
    /\ running /\ Idle /\ wallClock < MaxEvents
    /\ \E userId \in Callers, channelId \in ChannelIds :
           /\ voiceStates[userId] \notin {"none", channelId}
           /\ voiceStates' = [voiceStates EXCEPT ![userId] = channelId]
           /\ pending' = pending \cup
                  {Handler("switch", userId, channelId, wallClock + 1,
                           IF \E s \in activeVoiceSessions : s.userId = userId
                           THEN "find" ELSE "create")}
    /\ wallClock' = wallClock + 1
    /\ UNCHANGED <<activeVoiceSessions, running>>
    /\ UNCHANGED storeVars
    /\ UNCHANGED serviceVars
    /\ UNCHANGED mergeVars
    /\ UNCHANGED pureVars
    /\ UNCHANGED syncVars

\* DatabaseService.updateVoiceSession, lines 271-275: findOne returns some
\* session of the user without leftAt, or null
FindOpenSession ==
    /\ \E h \in pending :
           /\ h.pc = "find"
           /\ LET open == {s \in voiceSessions :
                              s.userId = h.userId /\ s.leftAt = NoDate}
              IN  \E found \in (IF open = {} THEN {<<>>}
                                ELSE {<<s>> : s \in open}) :
                      pending' = (pending \ {h}) \cup
                          {[h EXCEPT !.pc = "update", !.found = found]}
    /\ UNCHANGED <<activeVoiceSessions, voiceStates, wallClock, running>>
    /\ UNCHANGED storeVars
    /\ UNCHANGED serviceVars
    /\ UNCHANGED mergeVars
    /\ UNCHANGED pureVars
    /\ UNCHANGED syncVars

\* updateVoiceSession, lines 277-289: updateOne sets leftAt on the document
\* with the _id that findOne returned, whatever it holds by now.  Then the
\* leave handler deletes the entry of the user (line 225), the switch
\* handler builds the new session (lines 254-261).
CloseSession ==
    /\ \E h \in pending :
           /\ h.pc = "update"
           /\ voiceSessions' =
                  IF h.found = <<>> THEN voiceSessions
                  ELSE {IF /\ s.userId = h.found[1].userId
                           /\ s.channelId = h.found[1].channelId
                           /\ s.joinedAt = h.found[1].joinedAt
                        THEN [s EXCEPT !.leftAt = h.time] ELSE s :
                            s \in voiceSessions}
           /\ activeVoiceSessions' =
                  IF h.kind = "leave"
                  THEN {s \in activeVoiceSessions : s.userId # h.userId}
                  ELSE activeVoiceSessions
           /\ pending' = (pending \ {h}) \cup
                  {IF h.kind = "leave"
                   THEN [h EXCEPT !.pc = "record", !.found = <<>>]
                   ELSE [h EXCEPT !.pc = "create", !.found = <<>>,
                                  !.time = wallClock]}
    /\ UNCHANGED <<userInteractions, result, voiceStates, wallClock, running>>
    /\ UNCHANGED serviceVars
    /\ UNCHANGED mergeVars
    /\ UNCHANGED pureVars
    /\ UNCHANGED syncVars

\* createVoiceSession returns (DatabaseService lines 256-265) and the
\* handler sets the entry of the user (lines 202, 264)
StoreSession ==
    /\ \E h \in pending :
           /\ h.pc = "create"
           /\ LET session == NewSession(h.userId, h.channelId, h.time)
              IN  /\ voiceSessions' = voiceSessions \cup {session}
                  /\ activeVoiceSessions' =
                         {s \in activeVoiceSessions : s.userId # h.userId}
                             \cup {session}
           /\ pending' =
                  IF h.kind = "join"
                  THEN (pending \ {h}) \cup {[h EXCEPT !.pc = "record"]}
                  ELSE pending \ {h}
    /\ UNCHANGED <<userInteractions, result, voiceStates, wallClock, running>>
    /\ UNCHANGED serviceVars
    /\ UNCHANGED mergeVars
    /\ UNCHANGED pureVars
    /\ UNCHANGED syncVars

\* the vc_time interaction of the user with themselves (lines 205-217 and
\* 227-239), stamped new Date()
RecordVcTime ==
    /\ \E h \in pending :
           /\ h.pc = "record"
           /\ userInteractions' = userInteractions (+)
                  SetToBag({[fromUserId |-> h.userId, toUserId |-> h.userId,
                             interactionType |-> "vc_time",
                             timestamp |-> wallClock]})
           /\ pending' = pending \ {h}
    /\ UNCHANGED <<voiceSessions, result, activeVoiceSessions, voiceStates,
                   wallClock, running>>
    /\ UNCHANGED serviceVars
    /\ UNCHANGED mergeVars
    /\ UNCHANGED pureVars
    /\ UNCHANGED syncVars

\* SIGINT or SIGTERM: the listener of main.ts (lines 27-36) was registered
\* first and calls process.exit(0), so the listener of Bot.ts, which would
\* await cleanupActiveSessions, does not run; the Map and the waiting
\* handlers go with the process
Shutdown ==
    /\ running
    /\ running' = FALSE
    /\ activeVoiceSessions' = {}
    /\ pending' = {}
    /\ UNCHANGED <<voiceStates, wallClock>>
    /\ UNCHANGED storeVars
    /\ UNCHANGED serviceVars
    /\ UNCHANGED mergeVars
    /\ UNCHANGED pureVars
    /\ UNCHANGED syncVars

\* the bot is started again: new RealtimeTrackingService, an empty Map
Start ==
    /\ ~running
    /\ running' = TRUE
    /\ UNCHANGED <<activeVoiceSessions, pending, voiceStates, wallClock>>
    /\ UNCHANGED storeVars
    /\ UNCHANGED serviceVars
    /\ UNCHANGED mergeVars
    /\ UNCHANGED pureVars
    /\ UNCHANGED syncVars

\* trackReactionAdd (lines 145-170): the reaction of `user` to a message
\* of `author`, who may be the same user, stamped new Date()
TrackReactionAdd ==
    /\ running /\ Idle /\ wallClock < MaxEvents
    /\ \E user \in Callers, author \in VoiceUsers :
           userInteractions' = userInteractions (+)
               SetToBag({[fromUserId |-> user, toUserId |-> author,
                          interactionType |-> "reaction",
                          timestamp |-> wallClock + 1]})
    /\ wallClock' = wallClock + 1
    /\ UNCHANGED <<voiceSessions, result>>
    /\ UNCHANGED <<activeVoiceSessions, pending, voiceStates, running>>
    /\ UNCHANGED serviceVars
    /\ UNCHANGED mergeVars
    /\ UNCHANGED pureVars
    /\ UNCHANGED syncVars

\* a plausible slip: the removal deletes a recorded reaction of the user
TrackReactionRemoveDeleting ==
    /\ running /\ Idle /\ wallClock < MaxEvents
    /\ \E i \in BagToSet(userInteractions) :
           /\ i.interactionType = "reaction"
           /\ userInteractions' = userInteractions (-) SetToBag({i})
    /\ wallClock' = wallClock + 1
    /\ UNCHANGED <<voiceSessions, result>>
    /\ UNCHANGED <<activeVoiceSessions, pending, voiceStates, running>>
    /\ UNCHANGED serviceVars
    /\ UNCHANGED mergeVars
    /\ UNCHANGED pureVars
    /\ UNCHANGED syncVars

\* trackReactionRemove (lines 172-181): nothing is written
TrackReactionRemove ==
    /\ running /\ Idle /\ wallClock < MaxEvents
    /\ userInteractions # EmptyBag
    /\ wallClock' = wallClock + 1
    /\ UNCHANGED storeVars
    /\ UNCHANGED <<activeVoiceSessions, pending, voiceStates, running>>
    /\ UNCHANGED serviceVars
    /\ UNCHANGED mergeVars
    /\ UNCHANGED pureVars
    /\ UNCHANGED syncVars

\* what a message contributes to userInteractions: a mention of each
\* mentioned user but the author, a reply when the message answers a
\* message of another user, stamped with the time of the message
\* (trackMessageInteractions, lines 300-338, and
\* GuildSyncService.syncInteractionsFromMessages, lines 354-394)
MessageInteractions(message) ==
    {[fromUserId |-> message.authorId, toUserId |-> m,
      interactionType |-> "mention", timestamp |-> message.timestamp] :
          m \in message.mentions \ {message.authorId}}
    \cup
    {[fromUserId |-> message.authorId, toUserId |-> r,
      interactionType |-> "reply", timestamp |-> message.timestamp] :
          r \in message.replyTo \ {message.authorId}}

\* trackMessage (lines 27-78): upsertMessage stores the message under its
\* discordId, trackMessageInteractions records its interactions. replyTo
\* holds the author of the answered message, which both the tracker
\* (fetchReference) and the sync (findOne by discordId) look up.
TrackMessage ==
    /\ running /\ Idle /\ wallClock < MaxEvents
    /\ \E author \in Callers, mentions \in SUBSET VoiceUsers,
          replied \in SUBSET VoiceUsers :
           /\ Cardinality(replied) <= 1
           /\ messages' = messages \cup
                  {[discordId |-> wallClock + 1, authorId |-> author,
                    mentions |-> mentions, replyTo |-> replied,
                    timestamp |-> wallClock + 1]}
           /\ userInteractions' = userInteractions (+)
                  SetToBag(MessageInteractions(
                      [discordId |-> wallClock + 1, authorId |-> author,
                       mentions |-> mentions, replyTo |-> replied,
                       timestamp |-> wallClock + 1]))
    /\ wallClock' = wallClock + 1
    /\ UNCHANGED <<voiceSessions, result, guildSync>>
    /\ UNCHANGED <<activeVoiceSessions, pending, voiceStates, running>>
    /\ UNCHANGED serviceVars
    /\ UNCHANGED mergeVars
    /\ UNCHANGED pureVars

\* GuildSyncService.syncGuild (lines 34-127) on a guild whose messages are
\* all stored already. A full sync runs when forced or when the guild has
\* no completed sync on record: syncMessages finds every discordId stored
\* (unique index), syncInteractionsFromMessages (lines 330-413) records
\* the interactions of every stored message that has a mention or a reply.
\* An incremental sync (lines 415-446) does not touch the interactions.
SyncGuild ==
    /\ running /\ Idle /\ wallClock < MaxEvents
    /\ \E forceFullSync \in BOOLEAN :
           userInteractions' =
               IF forceFullSync \/ guildSync = <<>>
                                \/ ~guildSync[1].isFullySynced
               THEN userInteractions (+)
                    SetToBag(UNION {MessageInteractions(m) :
                        m \in {x \in messages :
                                  x.mentions # {} \/ x.replyTo # {}}})
               ELSE userInteractions
    /\ guildSync' = <<[isFullySynced |-> TRUE, lastSyncAt |-> wallClock + 1]>>
    /\ wallClock' = wallClock + 1
    /\ UNCHANGED <<voiceSessions, result, messages>>
    /\ UNCHANGED <<activeVoiceSessions, pending, voiceStates, running>>
    /\ UNCHANGED serviceVars
    /\ UNCHANGED mergeVars
    /\ UNCHANGED pureVars

\* trackMessageUpdate and trackMessageDelete (lines 80-142) write to the
\* messages collection only
TrackMessageUpdate ==
    /\ running /\ Idle /\ wallClock < MaxEvents
    /\ userInteractions # EmptyBag
    /\ wallClock' = wallClock + 1
    /\ UNCHANGED storeVars
    /\ UNCHANGED <<activeVoiceSessions, pending, voiceStates, running>>
    /\ UNCHANGED serviceVars
    /\ UNCHANGED mergeVars
    /\ UNCHANGED pureVars
    /\ UNCHANGED syncVars

\* the sessions of the two channels named General that span all stored time
SpanSessions ==
    {s \in SessionDocs :
        /\ s.channelName = "General"
        /\ s.joinedAt = 0
        /\ s.leftAt = MaxJoin * HalfMinute}

\* Spec: scoring over a stored session history and a growing interaction log
Init ==
    /\ voiceSessions \in SUBSET SpanSessions
    /\ userInteractions = EmptyBag
    /\ result = <<>>
    /\ overlaps = <<>>
    /\ merged = <<>>
    /\ remerged = <<>>
    /\ mpc = "input"
    /\ InitService
    /\ InitPure

Next == RecordInteraction \/ CalculateAffinity \/ Return

Spec == Init /\ [][Next]_vars

\* SpecOverlap: the overlap engine over a growing session history
InitOverlap ==
    /\ voiceSessions = {}
    /\ userInteractions = EmptyBag
    /\ result = <<>>
    /\ overlaps = <<>>
    /\ merged = <<>>
    /\ remerged = <<>>
    /\ mpc = "input"
    /\ InitService
    /\ InitPure

NextOverlap == CreateVoiceSession \/ CalculateAffinity \/ Return

SpecOverlap == InitOverlap /\ [][NextOverlap]_vars

\* SpecVoice: the voice tracker from an empty store, with restarts
NextVoice ==
    \/ VoiceJoin \/ VoiceLeave \/ VoiceSwitch
    \/ FindOpenSession \/ CloseSession \/ StoreSession \/ RecordVcTime
    \/ Shutdown \/ Start

SpecVoice == InitOverlap /\ [][NextVoice]_vars

\* SpecTracker: every event the tracker handles, from an empty store
NextTracker ==
    \/ TrackReactionAdd \/ TrackReactionRemove
    \/ TrackMessage \/ TrackMessageUpdate
    \/ VoiceJoin \/ VoiceLeave \/ VoiceSwitch
    \/ FindOpenSession \/ CloseSession \/ StoreSession \/ RecordVcTime

SpecTracker == InitOverlap /\ [][NextTracker]_vars

\* SpecSync: messages tracked as they arrive and syncs of the guild
NextSync == TrackMessage \/ SyncGuild

SpecSync == InitOverlap /\ [][NextSync]_vars

\* SpecSelf: the relationship list over the reactions and voice joins the
\* tracker has recorded
NextSelf ==
    \/ TrackReactionAdd
    \/ VoiceJoin \/ StoreSession \/ RecordVcTime
    \/ GetTopRelationships \/ Return

SpecSelf == InitOverlap /\ [][NextSelf]_vars

\* SpecService: the relationship list over a stored session history and a
\* growing interaction log
NextService == RecordInteraction \/ GetTopRelationships \/ Return

SpecService == Init /\ [][NextService]_vars

\* SpecFault: the three calls of the service while the store rejects some
\* operations.  The log holds recent reactions of u1 to u2 and to u3.
FaultLogs ==
    {SetToBag(S) :
        S \in SUBSET {i \in InteractionDocs :
                        /\ i.interactionType = "reaction"
                        /\ i.timestamp = 0}}

InitFault ==
    /\ voiceSessions \in SUBSET SpanSessions
    /\ userInteractions \in FaultLogs
    /\ result = <<>>
    /\ analysis = <<>>
    /\ top = <<>>
    /\ faulty \in {F \in SUBSET Operations : Cardinality(F) <= MaxFaults}
    /\ thrown = "none"
    /\ activeVoiceSessions = {}
    /\ pending = {}
    /\ voiceStates = [u \in Callers |-> "none"]
    /\ wallClock = 0
    /\ running = TRUE
    /\ messages = {}
    /\ guildSync = <<>>
    /\ overlaps = <<>>
    /\ merged = <<>>
    /\ remerged = <<>>
    /\ mpc = "input"
    /\ InitPure

NextFault ==
    CalculateAffinity \/ AnalyzeRelationship \/ GetTopRelationships \/ Return

SpecFault == InitFault /\ [][NextFault]_vars

\* SpecMalformed: scoring over a store that also holds records written
\* across a wallClock step: sessions in c1 whose leftAt is before their joinedAt,
\* and a reaction of u1 to u2 stamped a day after the evaluation time.
BackwardSessions ==
    {[userId |-> u, channelId |-> "c1", channelName |-> ChannelNameOf["c1"],
      joinedAt |-> MaxJoin * HalfMinute, leftAt |-> 0] : u \in VoiceUsers}

FutureInteractions ==
    {[fromUserId |-> "u1", toUserId |-> "u2", interactionType |-> "reaction",
      timestamp |-> EvalTime + DayLen]}

InitMalformed ==
    /\ voiceSessions \in SUBSET (SpanSessions \cup BackwardSessions)
    /\ userInteractions \in
           {SetToBag(S) :
               S \in SUBSET (FutureInteractions \cup
                             {i \in InteractionDocs :
                                 /\ i.toUserId = "u2"
                                 /\ i.interactionType = "reaction"
                                 /\ i.timestamp = 0})}
    /\ result = <<>>
    /\ overlaps = <<>>
    /\ merged = <<>>
    /\ remerged = <<>>
    /\ mpc = "input"
    /\ InitService
    /\ InitPure

NextMalformed == CalculateAffinity \/ Return

SpecMalformed == InitMalformed /\ [][NextMalformed]_vars

\* SpecOwnOverlap: the affinity over every history of two sessions of the
\* caller, which may overlap each other, and one session of the other user
InitOwnOverlap ==
    /\ voiceSessions \in
           {{s1, s2, s3} :
               s1 \in {s \in SessionDocs : s.userId = "u1"},
               s2 \in {s \in SessionDocs : s.userId = "u1"},
               s3 \in {s \in SessionDocs : s.userId = "u2"}}
    /\ userInteractions = EmptyBag
    /\ result = <<>>
    /\ overlaps = <<>>
    /\ merged = <<>>
    /\ remerged = <<>>
    /\ mpc = "input"
    /\ InitService
    /\ InitPure

SpecOwnOverlap == InitOwnOverlap /\ [][NextMalformed]_vars

\* SpecLong: scoring over long voice histories.  u1 sat in c1 from a to b and
\* in c3 from b to c, u2 sat in c1 from x to y, all in the last MaxUnits
\* periods of 20 minutes before time 0; nobody wrote anything.
LongTimes == {0 - k * 20 * MinuteLen : k \in 0..MaxUnits}

LongSession(userId, channelId, joinedAt, leftAt) ==
    [userId |-> userId, channelId |-> channelId,
     channelName |-> ChannelNameOf[channelId],
     joinedAt |-> joinedAt, leftAt |-> leftAt]

LongHistories ==
    {{LongSession("u1", "c1", t[1], t[2]), LongSession("u1", "c3", t[2], t[3]),
      LongSession("u2", "c1", t[4], t[5])} :
        t \in {u \in [1..5 -> LongTimes] :
                  u[1] < u[2] /\ u[2] < u[3] /\ u[4] < u[5]}}

InitLong ==
    /\ voiceSessions \in LongHistories
    /\ userInteractions = EmptyBag
    /\ result = <<>>
    /\ overlaps = <<>>
    /\ merged = <<>>
    /\ remerged = <<>>
    /\ mpc = "input"
    /\ InitService
    /\ InitPure

NextLong == CalculateAffinity \/ Return

SpecLong == InitLong /\ [][NextLong]_vars

\* SpecDecay: calculateTimeDecay applied to two timestamps of different age.
\* An age is a whole number of days or a second more; -1 day is a timestamp
\* of the future.
DecayAges == {k * DayLen + o : k \in (0 - 1)..MaxAgeDays, o \in {0, 1}}

InitDecay ==
    /\ ages \in {a \in DecayAges \X DecayAges : a[1] < a[2]}
    /\ weights = <<>>
    /\ totals = <<>>
    /\ types = <<>>
    /\ insightArgs = <<>>
    /\ insights = <<>>
    /\ voiceSessions = {}
    /\ userInteractions = EmptyBag
    /\ result = <<>>
    /\ overlaps = <<>>
    /\ merged = <<>>
    /\ remerged = <<>>
    /\ mpc = "input"
    /\ InitService

\* the interaction loop asks for the weight of each timestamp (line 272)
TimeDecay ==
    /\ ages # <<>>
    /\ weights = <<>>
    /\ \E now \in EvalTimes :
           weights' = <<calculateTimeDecay(now - ages[1], now),
                        calculateTimeDecay(now - ages[2], now)>>
    /\ UNCHANGED <<ages, totals, types, insightArgs, insights>>
    /\ UNCHANGED storeVars
    /\ UNCHANGED serviceVars
    /\ UNCHANGED mergeVars
    /\ UNCHANGED trackerVars
    /\ UNCHANGED syncVars

NextDecay == TimeDecay

SpecDecay == InitDecay /\ [][NextDecay]_vars

\* SpecClassify: lines 136-137 of analyzeRelationship applied to two pairs
\* of directional scores.  The forward totalScore is 0 or half a point below
\* a threshold, the reverse one 0, 1/2, ..., MaxHalves/2.
ForwardTotals == {Num(0), R(19, 2), R(99, 2), R(199, 2)}
ReverseTotals == {R(k, 2) : k \in 0..MaxHalves}

ScorePairs ==
    {[affinity |-> [totalScore |-> f], reverseAffinity |-> [totalScore |-> b]] :
        f \in ForwardTotals, b \in ReverseTotals}

InitClassify ==
    /\ totals \in ScorePairs \X ScorePairs
    /\ types = <<>>
    /\ ages = <<>>
    /\ weights = <<>>
    /\ insightArgs = <<>>
    /\ insights = <<>>
    /\ voiceSessions = {}
    /\ userInteractions = EmptyBag
    /\ result = <<>>
    /\ overlaps = <<>>
    /\ merged = <<>>
    /\ remerged = <<>>
    /\ mpc = "input"
    /\ InitService

Classify ==
    /\ totals # <<>>
    /\ types = <<>>
    /\ types' = <<Relationship(totals[1].affinity, totals[1].reverseAffinity),
                  Relationship(totals[2].affinity, totals[2].reverseAffinity)>>
    /\ UNCHANGED <<ages, weights, totals, insightArgs, insights>>
    /\ UNCHANGED storeVars
    /\ UNCHANGED serviceVars
    /\ UNCHANGED mergeVars
    /\ UNCHANGED trackerVars
    /\ UNCHANGED syncVars

NextClassify == Classify

SpecClassify == InitClassify /\ [][NextClassify]_vars

\* SpecInsights: generateInsights applied twice to the same arguments.  The
\* scores are on both sides of every threshold of lines 425-492; the last
\* interaction, when there is one, is at time 0, and the calls are made half
\* a day, three days or eight days later.
InsightScores ==
    LET counts == {<<0, 0, 0>>, <<3, 0, 0>>, <<0, 2, 0>>, <<0, 0, 3>>, <<1, 2, 3>>}
        channel(m) == <<[channelName |-> "General", minutes |-> Num(m)]>>
        voice == {[totalMinutes |-> Num(0), relativeScore |-> Num(0),
                   topChannels |-> <<>>, averageSessionLength |-> Num(0)],
                  [totalMinutes |-> Num(5), relativeScore |-> Num(1),
                   topChannels |-> channel(5), averageSessionLength |-> Num(5)],
                  [totalMinutes |-> Num(30), relativeScore |-> Num(5),
                   topChannels |-> channel(30), averageSessionLength |-> Num(15)],
                  [totalMinutes |-> Num(30), relativeScore |-> Num(15),
                   topChannels |-> channel(30), averageSessionLength |-> Num(30)],
                  [totalMinutes |-> Num(90), relativeScore |-> R(51, 2),
                   topChannels |-> channel(90), averageSessionLength |-> Num(45)]}
        common == [totalScore : {Num(0), Num(5), Num(20)},
                   interactionCounts :
                       {[reactions |-> c[1], mentions |-> c[2], replies |-> c[3]] :
                           c \in counts},
                   timeRange : [daysActive : {0, 40}, lastInteraction : {NoDate, 0}],
                   rank : {1, 4}]
    IN  {[totalScore |-> a.totalScore, interactionCounts |-> a.interactionCounts,
          timeRange |-> a.timeRange, rank |-> a.rank,
          breakdown |-> [vcRelativeScore |-> RMul(v.relativeScore, Num(50))],
          vcDetails |-> v] : a \in common, v \in voice}
        \cup {[totalScore |-> a.totalScore,
               interactionCounts |-> a.interactionCounts,
               timeRange |-> a.timeRange, rank |-> a.rank,
               breakdown |-> [vcRelativeScore |-> b]] :
                 a \in common, b \in {Num(0), Num(20)}}

InitInsights ==
    /\ insightArgs \in
           {<<[affinity |-> a, reverseAffinity |-> [totalScore |-> r],
               user1 |-> u1, user2 |-> u2]>> :
               a \in InsightScores, r \in {Num(0), Num(5)},
               u1 \in {<<>>, <<[displayName |-> "Ann"]>>},
               u2 \in {<<>>, <<[displayName |-> "Bob"]>>}}
    /\ insights = <<>>
    /\ ages = <<>>
    /\ weights = <<>>
    /\ totals = <<>>
    /\ types = <<>>
    /\ voiceSessions = {}
    /\ userInteractions = EmptyBag
    /\ result = <<>>
    /\ overlaps = <<>>
    /\ merged = <<>>
    /\ remerged = <<>>
    /\ mpc = "input"
    /\ InitService

\* line 138, for a first and for a second time
GenerateInsights ==
    /\ insightArgs # <<>>
    /\ Len(insights) < 2
    /\ \E dateNow \in {DayLen \div 2, 3 * DayLen, 8 * DayLen} :
           insights' =
               Append(insights,
                      [dateNow |-> dateNow,
                       lines |-> generateInsights(insightArgs[1].affinity,
                                     insightArgs[1].reverseAffinity,
                                     insightArgs[1].user1,
                                     insightArgs[1].user2, dateNow)])
    /\ UNCHANGED <<ages, weights, totals, types, insightArgs>>
    /\ UNCHANGED storeVars
    /\ UNCHANGED serviceVars
    /\ UNCHANGED mergeVars
    /\ UNCHANGED trackerVars
    /\ UNCHANGED syncVars

SpecInsights == InitInsights /\ [][GenerateInsights]_vars

----------------------------------------------------------------------------
(* Specification SpecMerge: the merge step applied to every raw list *)

RawOverlap(c, s, e) ==
    [channelName |-> c, startTime |-> s, endTime |-> e,
     durationMinutes |-> DurationMinutes(s, e)]

\* what findOverlappingSessions pushes: startTime < endTime (line 602) and the
\* duration of line 698
RawOverlaps ==
    {RawOverlap(c, se[1], se[2]) :
        c \in ChannelNames, se \in {x \in Times \X Times : x[1] < x[2]}}

RawLists == UNION {[1..n -> RawOverlaps] : n \in 0..MaxRaw}

InitMerge ==
    /\ overlaps \in RawLists
    /\ merged = <<>>
    /\ remerged = <<>>
    /\ mpc = "input"
    /\ voiceSessions = {}
    /\ userInteractions = EmptyBag
    /\ result = <<>>
    /\ InitService
    /\ InitPure

Merge ==
    /\ mpc = "input"
    /\ merged' = mergeOverlappingTimeRanges(overlaps)
    /\ mpc' = "merged"
    /\ UNCHANGED <<overlaps, remerged>>
    /\ UNCHANGED storeVars
    /\ UNCHANGED serviceVars
    /\ UNCHANGED trackerVars
    /\ UNCHANGED syncVars
    /\ UNCHANGED pureVars

Remerge ==
    /\ mpc = "merged"
    /\ remerged' = mergeOverlappingTimeRanges(merged)
    /\ mpc' = "remerged"
    /\ UNCHANGED <<overlaps, merged>>
    /\ UNCHANGED storeVars
    /\ UNCHANGED serviceVars
    /\ UNCHANGED trackerVars
    /\ UNCHANGED syncVars
    /\ UNCHANGED pureVars

NextMerge == Merge \/ Remerge

SpecMerge == InitMerge /\ [][NextMerge]_vars

----------------------------------------------------------------------------
(* Claims about the merge step, checked under SpecMerge *)

SameChannelPairs(s) ==
    {p \in (DOMAIN s) \X (DOMAIN s) :
        p[1] # p[2] /\ s[p[1]].channelName = s[p[2]].channelName}

\* C1: in the output of mergeOverlappingTimeRanges any two distinct intervals
\* of one channel are apart: one ends strictly before the other starts.
C1_MergedPairwiseDisjoint ==
    mpc # "input" =>
        \A p \in SameChannelPairs(merged) :
            \/ merged[p[1]].endTime < merged[p[2]].startTime
            \/ merged[p[2]].endTime < merged[p[1]].startTime

\* C1 witness: three raw intervals of one channel, two of them overlapping,
\* were merged into two intervals of that channel.
C1_Witness ==
    /\ mpc = "merged"
    /\ Len(overlaps) = 3
    /\ \A i \in DOMAIN overlaps : overlaps[i].channelName = "General"
    /\ Len(merged) = 2

\* the half-minute cells [k * HalfMinute, (k + 1) * HalfMinute) that the
\* intervals of channel c in list s cover
Cells(s, c) ==
    {k \in 0..(MaxT - 1) :
        \E i \in DOMAIN s :
            /\ s[i].channelName = c
            /\ s[i].startTime <= k * HalfMinute
            /\ (k + 1) * HalfMinute <= s[i].endTime}

RECURSIVE SumOver(_, _)
SumOver(S, f) ==
    IF S = {} THEN 0
    ELSE LET x == CHOOSE y \in S : TRUE IN f[x] + SumOver(S \ {x}, f)

UnionLength(s) ==
    SumOver(ChannelNames,
            [c \in ChannelNames |-> Cardinality(Cells(s, c)) * HalfMinute])

\* C2: in each channel the merged intervals cover exactly the union of the raw
\* overlaps, and totalMinutes is the length of that union, in whatever order
\* the raw overlaps arrive.
C2_NoDoubleCounting ==
    mpc # "input" =>
        /\ \A c \in ChannelNames : Cells(merged, c) = Cells(overlaps, c)
        /\ TotalMinutes(merged) = R(UnionLength(overlaps), MinuteLen)

\* C2 witness: the triple overlap of the spec, A = [0,2], B = [1,3], C = [1,2]
\* half minutes in one channel, arriving with C first, merged into [0,3].
C2_Witness ==
    /\ mpc = "merged"
    /\ Len(overlaps) = 3
    /\ overlaps[1] = RawOverlap("General", HalfMinute, 2 * HalfMinute)
    /\ overlaps[2] = RawOverlap("General", HalfMinute, 3 * HalfMinute)
    /\ overlaps[3] = RawOverlap("General", 0, 2 * HalfMinute)
    /\ merged = <<RawOverlap("General", 0, 3 * HalfMinute)>>
    /\ TotalMinutes(merged) = R(3, 2)

----------------------------------------------------------------------------
(* Claims about the overlap detection, checked under SpecOverlap *)

\* the pair (sA, sB) qualifies at the wallClock readings t1, t2
C3_Qualifies(sA, sB, t1, t2) ==
    /\ sA.userId # sB.userId
    /\ sA.channelId = sB.channelId
    /\ Max(sA.joinedAt, sB.joinedAt)
         < Min(IF sA.leftAt = NoDate THEN t1 ELSE sA.leftAt,
               IF sB.leftAt = NoDate THEN t2 ELSE sB.leftAt)

\* the interval the pair is to emit: [max of starts, min of ends] with
\* durationMinutes = (end - start) / 60000 of the millisecond timestamps
C3_Expected(sA, sB, t1, t2) ==
    LET start == Max(sA.joinedAt, sB.joinedAt)
        end == Min(IF sA.leftAt = NoDate THEN t1 ELSE sA.leftAt,
                   IF sB.leftAt = NoDate THEN t2 ELSE sB.leftAt)
    IN  [channelName |-> sA.channelName, startTime |-> start, endTime |-> end,
         durationMinutes |-> R((end - start) * MsPerSecond, 60000)]

\* C3: the raw overlaps of a call are exactly the intervals of the qualifying
\* session pairs (different users, same channelId, max of starts < min of
\* ends, an open session ending at the wallClock reading): one record per
\* qualifying pair, each [max of starts, min of ends] with durationMinutes =
\* (end - start) / 60000, and nothing for any other pair.
C3_RawOverlapsExact ==
    result # <<>> =>
        LET r == result[1]
            raw == r.vcDetails.overlaps
            A == {s \in voiceSessions : s.userId = r.fromUserId}
            B == {s \in voiceSessions : s.userId = r.toUserId}
        IN  \E t1, t2 \in EvalTimes :
                /\ t1 <= t2
                /\ LET Q == {p \in A \X B : C3_Qualifies(p[1], p[2], t1, t2)}
                   IN  /\ Len(raw) = Cardinality(Q)
                       /\ \A p \in Q : \E i \in DOMAIN raw :
                              raw[i] = C3_Expected(p[1], p[2], t1, t2)
                       /\ \A i \in DOMAIN raw : \E p \in Q :
                              raw[i] = C3_Expected(p[1], p[2], t1, t2)

\* C3 witness: u1 sat in c1 over [0, 2] half minutes, u2 joined c1 at 1 and is
\* still there; the call for (u1, u2) emitted the single raw overlap [1, 2],
\* half a minute.
C3_Witness ==
    /\ result # <<>>
    /\ result[1].toUserId = "u2"
    /\ [userId |-> "u1", channelId |-> "c1", channelName |-> "General",
        joinedAt |-> 0, leftAt |-> 2 * HalfMinute] \in voiceSessions
    /\ [userId |-> "u2", channelId |-> "c1", channelName |-> "General",
        joinedAt |-> HalfMinute, leftAt |-> NoDate] \in voiceSessions
    /\ result[1].vcDetails.overlaps =
           <<[channelName |-> "General", startTime |-> HalfMinute,
              endTime |-> 2 * HalfMinute, durationMinutes |-> R(1, 2)]>>

----------------------------------------------------------------------------
(* Claims about the merge step, continued *)

\* C5: merging the output of the merge step again returns the same intervals
\* with the same durations.
C5_MergeIdempotent ==
    mpc = "remerged" =>
        /\ Range(remerged) = Range(merged)
        /\ Len(remerged) = Len(merged)

\* C5 witness: a list of two channels in which the first application merged
\* something has been merged a second time.
C5_Witness ==
    /\ mpc = "remerged"
    /\ Len(merged) < Len(overlaps)
    /\ Len(merged) >= 2
    /\ \E i, j \in DOMAIN merged : merged[i].channelName # merged[j].channelName

----------------------------------------------------------------------------
(* Claims about calculateAffinity, checked under Spec *)

\* the channelIds in which a session of `from` and a session of `to` overlap
\* (every session of Spec is closed, so no wallClock reading matters)
OverlapChannelIds(from, to) ==
    {p[1].channelId :
        p \in {q \in {s \in voiceSessions : s.userId = from}
                       \X {s \in voiceSessions : s.userId = to} :
                  C3_Qualifies(q[1], q[2], EvalTime, EvalTime)}}

\* C4: raw overlaps that come from different channelIds remain separate
\* intervals after the merge, so the merged output holds at least one
\* interval for each channelId in which the two users overlapped.
C4_ChannelsStaySeparate ==
    result # <<>> =>
        Len(result[1].vcDetails.overlappingSessions)
            >= Cardinality(OverlapChannelIds(result[1].fromUserId,
                                             result[1].toUserId))

\* C6: every AffinityScore carries relativeScore in [0, 100] and rank >= 1.
C6_RankingInRange ==
    result # <<>> =>
        /\ RLe(Num(0), result[1].relativeScore)
        /\ RLe(result[1].relativeScore, Num(100))
        /\ result[1].rank >= 1

\* the number of stored interactions from -> to inside the 90-day window
\* that ends at `now`
WindowCount(from, to, now) ==
    LET docs == {i \in BagToSet(userInteractions) :
                    /\ i.fromUserId = from
                    /\ i.toUserId = to
                    /\ i.timestamp >= now - 90 * DayLen}
    IN  BagCardinality([i \in docs |-> CopiesIn(i, userInteractions)])

WindowTargets(from, now) == {t \in Users : WindowCount(from, t, now) > 0}

\* the position of the first count <= score in the descending list of the
\* per-target counts: the number of targets whose count is above score
CountsAbove(from, score, now) ==
    Cardinality({t \in WindowTargets(from, now) :
                    RLt(score, Num(WindowCount(from, t, now)))})

\* C7 as stated: when the user has an interaction in the window and some
\* count is <= the score, rank = 1 + position of the first such count and
\* relativeScore = min(100, rank / numberOfDistinctTargets * 100).
C7_RelativeFromRank ==
    result # <<>> =>
        LET r == result[1]
        IN  \E now \in EvalTimes :
                LET n == Cardinality(WindowTargets(r.fromUserId, now))
                    k == CountsAbove(r.fromUserId, r.totalScore, now)
                IN  (n > 0 /\ k < n) =>
                        /\ r.rank = 1 + k
                        /\ r.relativeScore = R(Min(n, 1 + k) * 100, n)

\* C7 amended: when the user has an interaction in the window, with k the
\* position of the first count <= the score: rank = 1 + k and relativeScore =
\* k / numberOfDistinctTargets * 100 (the position, not the rank, is divided);
\* when no count is <= the score the position is -1, so rank = 0 and
\* relativeScore = -100 / numberOfDistinctTargets.
C7_RelativeFromIndex ==
    result # <<>> =>
        LET r == result[1]
        IN  \E now \in EvalTimes :
                LET n == Cardinality(WindowTargets(r.fromUserId, now))
                    k == CountsAbove(r.fromUserId, r.totalScore, now)
                    index == IF k < n THEN k ELSE 0 - 1
                IN  n > 0 =>
                        /\ r.rank = 1 + index
                        /\ r.relativeScore = R(index * 100, n)

\* C7 witness: u1 has two recent interactions with u2 and one reaction to u3;
\* the score 1 of (u1, u3) is second of two: rank 2, relativeScore 50.
C7_Witness ==
    /\ result # <<>>
    /\ result[1].toUserId = "u3"
    /\ WindowCount("u1", "u2", EvalTime) = 2
    /\ WindowCount("u1", "u3", EvalTime) = 1
    /\ result[1].totalScore = Num(1)
    /\ result[1].rank = 2
    /\ result[1].relativeScore = Num(50)

\* C8: for a pair with no interactions from -> to and no voice sessions the
\* AffinityScore is all zero: totalScore 0, relativeScore 0, rank 1,
\* daysActive 0 and no first or last interaction, whatever else `from` did.
C8_ZeroData ==
    (/\ result # <<>>
     /\ voiceSessions = {}
     /\ FindInteractions(userInteractions, result[1].fromUserId,
                         result[1].toUserId) = EmptyBag) =>
        /\ result[1].totalScore = Num(0)
        /\ result[1].relativeScore = Num(0)
        /\ result[1].rank = 1
        /\ result[1].timeRange.daysActive = 0
        /\ result[1].timeRange.firstInteraction = NoDate
        /\ result[1].timeRange.lastInteraction = NoDate

\* C9: every breakdown component of an AffinityScore is >= 0, totalScore is
\* the sum of the four components, and every overlap, before and after the
\* merge, has a duration > 0.
C9_NonNegativeSum ==
    result # <<>> =>
        LET r == result[1]
            b == r.breakdown
        IN  /\ RLe(Num(0), b.reactions)
            /\ RLe(Num(0), b.mentions)
            /\ RLe(Num(0), b.replies)
            /\ RLe(Num(0), b.vcRelativeScore)
            /\ r.totalScore =
                   RAdd(b.reactions,
                        RAdd(b.mentions, RAdd(b.replies, b.vcRelativeScore)))
            /\ \A i \in DOMAIN r.vcDetails.overlaps :
                   RLt(Num(0), r.vcDetails.overlaps[i].durationMinutes)
            /\ \A i \in DOMAIN r.vcDetails.overlappingSessions :
                   RLt(Num(0),
                       r.vcDetails.overlappingSessions[i].durationMinutes)

\* C9 witness: a score with a reaction, a mention and a reply part and a
\* voice part made of two raw overlaps.
C9_Witness ==
    /\ result # <<>>
    /\ RLt(Num(0), result[1].breakdown.reactions)
    /\ RLt(Num(0), result[1].breakdown.mentions)
    /\ RLt(Num(0), result[1].breakdown.replies)
    /\ RLt(Num(0), result[1].breakdown.vcRelativeScore)
    /\ Len(result[1].vcDetails.overlaps) = 2

\* the seconds `from` spent in voice channels (all sessions closed)
VoiceSeconds(from) ==
    LET mine == {s \in voiceSessions : s.userId = from}
    IN  SumOver(mine, [s \in mine |-> s.leftAt - s.joinedAt])

\* C10: totalScore = reactionScore + mentionScore + replyScore +
\* vcRelative * 50, where vcRelative is the co-presence percentage: 100 times
\* the minutes spent together over the minutes `from` spent in voice
\* channels (0 when there are none).
C10_WeightedCombination ==
    result # <<>> =>
        LET r == result[1]
            b == r.breakdown
            seconds == VoiceSeconds(r.fromUserId)
        IN  /\ r.vcDetails.relativeScore =
                   IF seconds > 0
                   THEN RDiv(RMul(r.vcDetails.totalMinutes, Num(100)),
                             R(seconds * MsPerSecond, 60000))
                   ELSE Num(0)
            /\ r.totalScore =
                   RAdd(RAdd(RAdd(b.reactions, b.mentions), b.replies),
                        RMul(r.vcDetails.relativeScore, Num(50)))

\* C10 witness: u1 sat in two channels and met u2 in one of them, half of
\* the time (vcRelative 50), and reacted once to u2: 1 + 50 * 50 = 2501.
C10_Witness ==
    /\ result # <<>>
    /\ result[1].toUserId = "u2"
    /\ result[1].vcDetails.relativeScore = Num(50)
    /\ result[1].breakdown.reactions = Num(1)
    /\ result[1].totalScore = Num(2501)

----------------------------------------------------------------------------
(* Claims about the voice part of the score, checked under SpecLong and    *)
(* SpecOverlap                                                             *)

\* the call met the scenario: `from` spent 100 minutes in voice channels,
\* 20 of them together with `to`, and wrote nothing
VcScenario ==
    /\ result # <<>>
    /\ VoiceSeconds(result[1].fromUserId) = 100 * MinuteLen
    /\ result[1].vcDetails.totalMinutes = Num(20)
    /\ userInteractions = EmptyBag

\* C11 as stated: with 100 voice minutes of A, 20 of them with B, and no
\* text, vcRelative = 20 and the VC contribution to totalScore is 10.0.
C11_VcContributionTen ==
    VcScenario =>
        /\ result[1].vcDetails.relativeScore = Num(20)
        /\ result[1].breakdown.vcRelativeScore = Num(10)

\* C11 amended: with 100 voice minutes of A, 20 of them with B, and no text,
\* vcRelative = 20 and the VC contribution is 20 * 50 = 1000 points, which
\* is also the totalScore.
C11_VcContributionThousand ==
    VcScenario =>
        /\ result[1].vcDetails.relativeScore = Num(20)
        /\ result[1].breakdown.vcRelativeScore = Num(1000)
        /\ result[1].totalScore = Num(1000)

\* C11 witness: u1 sat 20 minutes in c1 with u2 and then 80 minutes in c3
\* alone; calculateAffinity(u1, u2) returned.
C11_Witness ==
    /\ VcScenario
    /\ result[1].toUserId = "u2"
    /\ LongSession("u1", "c1", 0 - 100 * MinuteLen, 0 - 80 * MinuteLen)
           \in voiceSessions
    /\ LongSession("u1", "c3", 0 - 80 * MinuteLen, 0) \in voiceSessions

\* the seconds `from` spent in voice channels, an open session counted up
\* to the time t
VoiceSecondsAt(from, t) ==
    LET mine == {s \in voiceSessions : s.userId = from}
    IN  SumOver(mine, [s \in mine |->
            (IF s.leftAt = NoDate THEN t ELSE s.leftAt) - s.joinedAt])

\* C13: vcRelative = coPresenceMinutes / totalVcMinutes(from) * 100, where
\* totalVcMinutes(from) sums the durations of all sessions of `from`, an open
\* one counted up to the evaluation time; vcRelative is 0 when that sum is 0.
C13_VcRelativeIsShareOfTotal ==
    result # <<>> =>
        LET r == result[1]
        IN  \E t \in EvalTimes :
                LET seconds == VoiceSecondsAt(r.fromUserId, t)
                IN  r.vcDetails.relativeScore =
                        IF seconds = 0 THEN Num(0)
                        ELSE R(r.vcDetails.totalMinutes.n * 100 * 60000,
                               r.vcDetails.totalMinutes.d * seconds
                                   * MsPerSecond)

\* C13 witness: u1 is still in the channel it joined at 0, u2 was there for
\* the first half minute: a share strictly between 0 and 100.
C13_Witness ==
    /\ result # <<>>
    /\ result[1].toUserId = "u2"
    /\ \E s \in voiceSessions :
           s.userId = "u1" /\ s.joinedAt = 0 /\ s.leftAt = NoDate
    /\ result[1].vcDetails.totalMinutes = R(1, 2)
    /\ RLt(Num(0), result[1].vcDetails.relativeScore)
    /\ RLt(result[1].vcDetails.relativeScore, Num(100))

----------------------------------------------------------------------------
(* Claims about the text part of the score, checked under Spec *)

\* the stored interactions from -> to of one kind
StoredOfKind(from, to, kind) ==
    LET docs == {i \in BagToSet(userInteractions) :
                    /\ i.fromUserId = from
                    /\ i.toUserId = to
                    /\ i.interactionType = kind}
    IN  BagCardinality([i \in docs |-> CopiesIn(i, userInteractions)])

\* every stored interaction from -> to is at most 90 days old at `now`
AllWithinDecayWindow(from, to, now) ==
    \A i \in BagToSet(userInteractions) :
        (i.fromUserId = from /\ i.toUserId = to) =>
            now - i.timestamp <= 90 * DayLen

\* C12: when every interaction from -> to is within the decay window, each
\* text bucket is count x weight (reaction 1, mention 2, reply 3), the counts
\* are the numbers of stored interactions of each kind, and without VC
\* co-presence totalScore is the sum of the three buckets.
C12_BucketsAreWeightedCounts ==
    result # <<>> =>
        LET r == result[1]
            reactions == StoredOfKind(r.fromUserId, r.toUserId, "reaction")
            mentions == StoredOfKind(r.fromUserId, r.toUserId, "mention")
            replies == StoredOfKind(r.fromUserId, r.toUserId, "reply")
        IN  (\A now \in EvalTimes :
                 AllWithinDecayWindow(r.fromUserId, r.toUserId, now)) =>
                /\ r.breakdown.reactions = Num(reactions)
                /\ r.breakdown.mentions = Num(2 * mentions)
                /\ r.breakdown.replies = Num(3 * replies)
                /\ r.interactionCounts.reactions = reactions
                /\ r.interactionCounts.mentions = mentions
                /\ r.interactionCounts.replies = replies
                /\ r.vcDetails.totalMinutes = Num(0) =>
                       r.totalScore =
                           Num(reactions + 2 * mentions + 3 * replies)

\* C12 witness: three recent mentions u1 -> u2 and nothing else: mentions
\* 6.0 and totalScore 6.0.
C12_Witness ==
    /\ result # <<>>
    /\ result[1].toUserId = "u2"
    /\ StoredOfKind("u1", "u2", "mention") = 3
    /\ AllWithinDecayWindow("u1", "u2", EvalTime + 1)
    /\ result[1].breakdown.mentions = Num(6)
    /\ result[1].interactionCounts.mentions = 3
    /\ result[1].totalScore = Num(6)

----------------------------------------------------------------------------
(* Claims about calculateTimeDecay, checked under SpecDecay *)

\* C14: the decay weight is in [0.1, 1.0], is exactly 1.0 for every age of at
\* most 90 days and is never below 0.1.
C14_DecayInRange ==
    weights # <<>> =>
        \A i \in 1..2 :
            /\ RLe(R(1, 10), weights[i])
            /\ RLe(weights[i], Num(1))
            /\ ages[i] <= 90 * DayLen => weights[i] = Num(1)

\* C14 witness: an age of exactly 90 days got weight 1.0 and an age of 170
\* days the floor 0.1.
C14_Witness ==
    /\ weights # <<>>
    /\ ages = <<90 * DayLen, 170 * DayLen>>
    /\ weights = <<Num(1), R(1, 10)>>

\* C15: the decay weight does not grow with age: for ages a1 < a2,
\* decay(a1) >= decay(a2).
C15_DecayMonotone ==
    weights # <<>> =>
        (ages[1] < ages[2] => RLe(weights[2], weights[1]))

\* C15 witness: a pair of ages on both sides of the floor, 120 days and 170
\* days, with weights strictly between 0.1 and 1.0 and at 0.1.
C15_Witness ==
    /\ weights # <<>>
    /\ ages = <<120 * DayLen, 170 * DayLen>>
    /\ RLt(R(1, 10), weights[1])
    /\ RLt(weights[1], Num(1))
    /\ weights[2] = R(1, 10)

----------------------------------------------------------------------------
(* Claims about the classifier, checked under SpecClassify *)

\* C16: a mutualScore is classified by inclusive lower bounds: strong iff
\* mutualScore >= 100, moderate iff 50 <= mutualScore < 100, weak iff
\* 10 <= mutualScore < 50, none iff mutualScore < 10.
C16_ThresholdsInclusive ==
    types # <<>> =>
        \A i \in 1..2 :
            LET m == types[i].mutualScore
                t == types[i].relationshipType
            IN  /\ t = "strong" <=> RLe(Num(100), m)
                /\ t = "moderate" <=> (RLe(Num(50), m) /\ RLt(m, Num(100)))
                /\ t = "weak" <=> (RLe(Num(10), m) /\ RLt(m, Num(50)))
                /\ t = "none" <=> RLt(m, Num(10))

\* C16 witness: mutual scores exactly 50 and exactly 100 were classified
\* moderate and strong.
C16_Witness ==
    /\ types # <<>>
    /\ types[1] = [mutualScore |-> Num(50), relationshipType |-> "moderate"]
    /\ types[2] = [mutualScore |-> Num(100), relationshipType |-> "strong"]

TypeRank(t) ==
    CASE t = "none" -> 0 [] t = "weak" -> 1 [] t = "moderate" -> 2
      [] t = "strong" -> 3

\* C17: mutualScore is the sum of the two directional totalScores, and the
\* relationshipType does not fall when the mutualScore grows (none < weak <
\* moderate < strong).
C17_MonotoneInMutualScore ==
    types # <<>> =>
        /\ \A i \in 1..2 :
               types[i].mutualScore =
                   R(totals[i].affinity.totalScore.n
                         * totals[i].reverseAffinity.totalScore.d
                       + totals[i].reverseAffinity.totalScore.n
                         * totals[i].affinity.totalScore.d,
                     totals[i].affinity.totalScore.d
                         * totals[i].reverseAffinity.totalScore.d)
        /\ \A i, j \in 1..2 :
               RLe(types[i].mutualScore, types[j].mutualScore) =>
                   TypeRank(types[i].relationshipType)
                       <= TypeRank(types[j].relationshipType)

\* C17 witness: 9.5 + 0.5 and 49.5 + 0 were classified weak and weak, the
\* second pair having the larger mutual score.
C17_Witness ==
    /\ types # <<>>
    /\ totals[1].affinity.totalScore = R(19, 2)
    /\ totals[1].reverseAffinity.totalScore = R(1, 2)
    /\ totals[2].affinity.totalScore = R(99, 2)
    /\ types[1] = [mutualScore |-> Num(10), relationshipType |-> "weak"]
    /\ types[2] = [mutualScore |-> R(99, 2), relationshipType |-> "weak"]

----------------------------------------------------------------------------
(* Claims about getTopRelationships, checked under SpecService *)

\* the other users that have a session in a channelId `user` has one in
VcPartners(user) ==
    {s.userId :
        s \in {x \in voiceSessions :
                  /\ x.userId # user
                  /\ \E m \in voiceSessions :
                         m.userId = user /\ m.channelId = x.channelId}}

\* the totalScore of from -> to on the present store (every session of the
\* history is closed, so the wallClock readings do not matter)
ScoreOf(from, to) ==
    calculateAffinity(voiceSessions, userInteractions, from, to,
        [end1 |-> EvalTime, end2 |-> EvalTime, totalNow |-> EvalTime]).totalScore

\* C18: the list getTopRelationships returns names no target twice, holds
\* only entries with totalScore > 0, is sorted by totalScore non-increasing
\* and is at most `limit` long; its entries are text partners of the last 90
\* days or VC partners of the user, and such a partner is missing only if its
\* score is 0 or the list is full with scores at least as high.
C18_TopRelationships ==
    top # <<>> =>
        LET t == top[1]
            l == t.relationships
            partners == WindowTargets(t.userId, EvalTime)
                            \cup VcPartners(t.userId)
        IN  /\ \A i, j \in DOMAIN l : i # j => l[i].toUserId # l[j].toUserId
            /\ \A i \in DOMAIN l : RLt(Num(0), l[i].totalScore)
            /\ \A i, j \in DOMAIN l :
                   i < j => RLe(l[j].totalScore, l[i].totalScore)
            /\ Len(l) <= t.limit
            /\ \A i \in DOMAIN l :
                   /\ l[i].fromUserId = t.userId
                   /\ l[i].toUserId \in partners
                   /\ l[i].totalScore = ScoreOf(t.userId, l[i].toUserId)
            /\ \A p \in partners :
                   \/ \E i \in DOMAIN l : l[i].toUserId = p
                   \/ ScoreOf(t.userId, p) = Num(0)
                   \/ /\ Len(l) = t.limit
                      /\ RLe(ScoreOf(t.userId, p), l[Len(l)].totalScore)

\* C18 witness: with limit 2 the list is u2, a partner by voice only, then
\* u3, a partner by text only, while u1 itself was a candidate through its
\* vc_time event and was dropped with score 0.
C18_Witness ==
    /\ top # <<>>
    /\ top[1].limit = 2
    /\ Len(top[1].relationships) = 2
    /\ top[1].relationships[1].toUserId = "u2"
    /\ top[1].relationships[2].toUserId = "u3"
    /\ WindowCount("u1", "u2", EvalTime) = 0
    /\ WindowCount("u1", "u1", EvalTime) > 0
    /\ "u3" \notin VcPartners("u1")

\* C18 witness of the cut: with limit 1 a partner with a positive score is
\* not in the list.
C18_Truncated ==
    /\ top # <<>>
    /\ top[1].limit = 1
    /\ Len(top[1].relationships) = 1
    /\ \E p \in WindowTargets("u1", EvalTime) :
           /\ p # top[1].relationships[1].toUserId
           /\ RLt(Num(0), ScoreOf("u1", p))

----------------------------------------------------------------------------
(* Claims about failures of the store, checked under SpecFault *)

\* C19: a call whose getCollections or whose query is rejected throws that
\* error and returns nothing: a returned AffinityScore, AffinityAnalysis or
\* relationship list means that no operation the call used was rejected.
C19_FailuresSurface ==
    /\ result # <<>> =>
           faulty \cap {"getCollections", "userInteractions.find",
                        "voiceSessions.find", "voiceSessions.aggregate",
                        "userInteractions.aggregate"} = {}
    /\ analysis # <<>> => faulty = {}
    /\ top # <<>> =>
           /\ faulty \cap {"getCollections", "userInteractions.aggregate",
                           "voiceSessions.aggregate"} = {}
           /\ top[1].relationships # <<>> =>
                  faulty \cap {"userInteractions.find",
                               "voiceSessions.find"} = {}
    /\ thrown # "none" =>
           /\ thrown \in faulty
           /\ result = <<>>
           /\ analysis = <<>>
           /\ top = <<>>

\* C19 witness: users.findOne is rejected and analyzeRelationship has
\* thrown that error without an analysis.
C19_Witness ==
    /\ faulty = {"users.findOne"}
    /\ thrown = "users.findOne"
    /\ analysis = <<>>

\* C19 witness of a failure inside calculateAffinity: the aggregate of
\* getTotalVCTimeForUser is rejected and the call has thrown it.
C19_WitnessAggregate ==
    /\ faulty = {"voiceSessions.aggregate"}
    /\ thrown = "voiceSessions.aggregate"
    /\ result = <<>>

----------------------------------------------------------------------------
(* Claims about malformed records, checked under SpecMalformed *)

\* the sessions of the store that do not end before they start
WellFormedSessions ==
    {s \in voiceSessions : s.leftAt = NoDate \/ s.leftAt >= s.joinedAt}

\* the interactions of the store that are not stamped after `now`
WellFormedInteractions(now) ==
    LET docs == {i \in BagToSet(userInteractions) : i.timestamp <= now}
    IN  [i \in docs |-> CopiesIn(i, userInteractions)]

\* C20: malformed records count for nothing and do not fail the call: the
\* buckets, the co-presence minutes and the relative VC score (and so
\* totalVcMinutes(from)) of a result are those of the store without its
\* sessions with leftAt < joinedAt and without its interactions stamped
\* after the evaluation time.
C20_MalformedRejected ==
    result # <<>> =>
        LET r == result[1]
            rd == [end1 |-> EvalTime, end2 |-> EvalTime, totalNow |-> EvalTime]
            clean == calculateAffinity(WellFormedSessions,
                                       WellFormedInteractions(EvalTime),
                                       r.fromUserId, r.toUserId, rd)
        IN  /\ r.breakdown = clean.breakdown
            /\ r.totalScore = clean.totalScore
            /\ r.vcDetails.totalMinutes = clean.vcDetails.totalMinutes
            /\ r.vcDetails.relativeScore = clean.vcDetails.relativeScore

\* C20, the part the code keeps: a session with leftAt < joinedAt adds
\* nothing to the co-presence minutes.
C20_CoPresenceUnaffected ==
    result # <<>> =>
        LET r == result[1]
            rd == [end1 |-> EvalTime, end2 |-> EvalTime, totalNow |-> EvalTime]
        IN  r.vcDetails.totalMinutes =
                calculateAffinity(WellFormedSessions, userInteractions,
                    r.fromUserId, r.toUserId, rd).vcDetails.totalMinutes

----------------------------------------------------------------------------
(* Claims about the Insight Generator, checked under SpecInsights *)

\* the position of a line in the priority order: 1 initiation, 2 interaction
\* type, 3 VC magnitude and relative share, 4 top shared channel, 5 long
\* sessions, 6 longevity, 7 recency, 8 rank callout
InsightGroup(line) ==
    CASE line.text \in {"initiates more interactions with",
                        "Both users initiate interactions equally"} -> 1
      [] line.text \in {"High level of direct conversation (many replies)",
                        "Frequent mentions suggest close relationship"} -> 2
      [] line.text \in {"Extensive voice chat time together",
                        "Moderate voice chat time together",
                        "Significant voice chat time together",
                        "Very high VC affinity", "High VC affinity",
                        "Moderate VC affinity", "Low VC affinity"} -> 3
      [] line.text = "Most time spent in" -> 4
      [] line.text = "Long average VC sessions" -> 5
      [] line.text = "Long-term relationship (30+ days)" -> 6
      [] line.text \in {"No recent interactions (7+ days)",
                        "Very recent interaction"} -> 7
      [] line.text = "Top relationship for" -> 8

\* the condition a line answers: the magnitude and the share of the voice
\* time are two conditions of one group, as are replies and mentions
InsightCondition(line) ==
    CASE line.text \in {"Extensive voice chat time together",
                        "Moderate voice chat time together",
                        "Significant voice chat time together"} -> "magnitude"
      [] line.text \in {"No recent interactions (7+ days)",
                        "Very recent interaction"} -> "recency"
      [] line.text \in {"Very high VC affinity", "High VC affinity",
                        "Moderate VC affinity", "Low VC affinity"} -> "share"
      [] line.text \in {"initiates more interactions with",
                        "Both users initiate interactions equally"} -> "initiation"
      [] OTHER -> line.text

\* C21: in every list generateInsights returns, the lines stand in the
\* priority order (initiation, interaction type, VC magnitude and share, top
\* channel, long sessions, longevity, recency, rank callout), and no
\* condition has two lines.
C21_InsightsInPriorityOrder ==
    \A k \in DOMAIN insights :
        LET lines == insights[k].lines
        IN  \A i, j \in DOMAIN lines :
                i < j =>
                    /\ InsightGroup(lines[i]) <= InsightGroup(lines[j])
                    /\ InsightCondition(lines[i]) # InsightCondition(lines[j])

\* C21 witness: a list with a line of each of the eight groups
C21_Witness ==
    /\ insights # <<>>
    /\ {InsightGroup(insights[1].lines[i]) : i \in DOMAIN insights[1].lines}
           = 1..8

\* C22: two calls of generateInsights with the same arguments return the
\* same list, whenever they are made.
C22_InsightsDeterministic ==
    Len(insights) = 2 => insights[1].lines = insights[2].lines

----------------------------------------------------------------------------
(* Claims about the effects of the calls, checked under SpecFault *)

----------------------------------------------------------------------------
(* Claims about the voice tracker, checked under SpecVoice *)

\* C24: once a user is out of voice and no handler of the tracker is
\* waiting, every session of the user has leftAt set in the store and the
\* Map holds no entry of the user.
C24_ClosedOnLeave ==
    \A userId \in Callers :
        (running /\ pending = {} /\ voiceStates[userId] = "none") =>
            /\ \A s \in voiceSessions : s.userId = userId => s.leftAt # NoDate
            /\ \A s \in activeVoiceSessions : s.userId # userId

\* C25: a step in which the process exits on a signal writes leftAt to the
\* stored session of every entry the Map held.
C25_FlushedOnShutdown ==
    [][Shutdown =>
          \A a \in activeVoiceSessions :
              \A s \in voiceSessions' :
                  (s.userId = a.userId /\ s.joinedAt = a.joinedAt)
                      => s.leftAt # NoDate]_vars

\* C26: the store holds at most one session without leftAt per user, and
\* leftAt is never before joinedAt.
C26_OneOpenSession ==
    /\ \A s, t \in voiceSessions :
           (s.userId = t.userId /\ s.leftAt = NoDate /\ t.leftAt = NoDate)
               => s = t
    /\ \A s \in voiceSessions : s.leftAt # NoDate => s.leftAt >= s.joinedAt

\* C26, second part: a session whose leftAt is set is not changed again.
C26_ClosedSessionsKept ==
    [][\A s \in voiceSessions : s.leftAt # NoDate => s \in voiceSessions']_vars

\* C27: the tracker only ever adds interaction documents: across every
\* step of every event handler, removals of reactions and edits of messages
\* included, each stored interaction is still stored with its multiplicity.
C27_InteractionsAppendOnly ==
    [][userInteractions \sqsubseteq userInteractions']_vars

\* a reaction recorded by the first event is still stored after two later
\* events, at least one of which wrote nothing
C27_Witness ==
    /\ wallClock = MaxEvents
    /\ BagCardinality(userInteractions) <= MaxEvents - 1
    /\ \E i \in BagToSet(userInteractions) :
           i.interactionType = "reaction" /\ i.timestamp = 1

\* C30: no relationship returned for a user names that user as the other
\* side, whatever reactions and voice joins the tracker has recorded.
C30_NeverSelf ==
    \A i \in DOMAIN top :
        \A k \in DOMAIN top[i].relationships :
            top[i].relationships[k].toUserId # top[i].userId

\* the same with no reaction of a user to their own message in the store:
\* the voice events a user records towards themselves yield no entry
C30_SelfOnlyThroughReactions ==
    (\A d \in BagToSet(userInteractions) :
         d.fromUserId = d.toUserId => d.interactionType = "vc_time")
        => C30_NeverSelf

\* C28: however often the guild is synced, and whether or not the tracker
\* has processed a message before a sync reads it, every mention and every
\* reply of a message is stored as exactly one interaction.
C28_OneInteractionPerMention ==
    \A d \in BagToSet(userInteractions) : CopiesIn(d, userInteractions) = 1

====
